---- MODULE Spec2Model ----
(***************************************************************************)
(* A model of the foodplanner recipe ingestion and aggregation engine:     *)
(* the recipe merge (dedupeRecipes), the ingredient line parser            *)
(* (parseIngredientDetails), the import validator (coerceRecipePayload,    *)
(* validateImportedRecipes and their helpers) and the export/import round  *)
(* trip of the recipe collection.                                          *)
(*                                                                         *)
(* JavaScript strings are sequences of one-character strings, so that      *)
(* trim, toLowerCase, split and the regular expressions of the source are  *)
(* computed character by character.  JavaScript numbers are exact          *)
(* rationals [n, d] in lowest terms; d = 0 stands for a non-finite number. *)
(* Values of unknown type (parsed JSON) are tagged records [t, v].         *)
(***************************************************************************)
EXTENDS Integers, Sequences, FiniteSets, TLC

VARIABLES
    pc,         \* position of the harness or of the application
    existing,   \* dedupeRecipes: the existing collection passed in
    incoming,   \* dedupeRecipes: the incoming batch passed in
    merged,     \* dedupeRecipes(existing, incoming)
    merged2,    \* dedupeRecipes(merged, incoming)
    tokens,     \* the tokens the raw ingredient line is written from
    line,       \* parseIngredientDetails: the raw line
    parsed,     \* parseIngredientDetails(line)
    raw,        \* normalizeServings: the raw value
    servings,   \* normalizeServings(raw)
    data,       \* the parsed JSON handed to coerceRecipePayload
    payload,    \* coerceRecipePayload(data)
    validated,  \* validateImportedRecipes(payload)
    recipes,    \* the application's recipe collection (React state)
    nextId,     \* the number of identifiers generateId has handed out
    exported,   \* the collection the file in `data` was exported from
    mealPlan,   \* the meal plan: date string -> DayPlan (React state)
    rangeStart, \* OverviewPanel: the start date string of the range
    rangeEnd,   \* OverviewPanel: the end date string of the range
    outputs,    \* buildPlanOutputs(mealPlan, recipes, rangeStart, rangeEnd)
    mealRaw,    \* normalizeMealTypeField: the raw value
    mealType,   \* normalizeMealTypeField(mealRaw)
    fieldSource, \* createFlexibleFieldLookup: the raw record
    fieldLookup, \* createFlexibleFieldLookup(fieldSource)
    snapshot,   \* dedupeRecipes: an array holding the record objects of `existing`
    pickKeys,   \* pickStringField: the candidate keys
    picked,     \* pickStringField(fieldLookup, pickKeys)
    ingredientSource, \* normalizeImportedIngredients: the raw value
    ingredientList,   \* normalizeImportedIngredients(ingredientSource)
    call        \* the handler the application ran last, with its arguments

vars == <<pc, existing, incoming, merged, merged2, tokens, line, parsed, raw, servings,
          data, payload, validated, recipes, nextId, exported,
          mealPlan, rangeStart, rangeEnd, outputs, mealRaw, mealType,
          fieldSource, fieldLookup, snapshot, pickKeys, picked,
          ingredientSource, ingredientList, call>>

dedupeVars == <<existing, incoming, merged, merged2, snapshot>>
parseVars == <<tokens, line, parsed>>
servingsVars == <<raw, servings>>
importVars == <<data, payload, validated>>
appVars == <<recipes, nextId, exported>>
planVars == <<mealPlan, rangeStart, rangeEnd, outputs>>
mealVars == <<mealRaw, mealType>>
lookupVars == <<fieldSource, fieldLookup>>
pickVars == <<pickKeys, picked>>
ingredientVars == <<ingredientSource, ingredientList>>
handlerVars == <<call>>

----------------------------------------------------------------------------
(* Strings *)

Upper == <<"A","B","C","D","E","F","G","H","I","J","K","L","M",
           "N","O","P","Q","R","S","T","U","V","W","X","Y","Z">>
Lower == <<"a","b","c","d","e","f","g","h","i","j","k","l","m",
           "n","o","p","q","r","s","t","u","v","w","x","y","z">>
Digits == <<"0","1","2","3","4","5","6","7","8","9">>

UpperToLower ==
    [c \in {Upper[i] : i \in 1..26} |-> Lower[CHOOSE i \in 1..26 : Upper[i] = c]]

toLowerCaseChar(c) == IF c \in DOMAIN UpperToLower THEN UpperToLower[c] ELSE c

\* String.prototype.toLowerCase
toLowerCase(s) == [i \in 1..Len(s) |-> toLowerCaseChar(s[i])]

\* the characters matched by \s (and removed by trim) that the model uses
isSpace(c) == c \in {" ", "\t", "\n", "\r"}

DigitValues ==
    [c \in {Digits[i] : i \in 1..10} |-> (CHOOSE i \in 1..10 : Digits[i] = c) - 1]

isDigit(c) == c \in DOMAIN DigitValues

digitValue(c) == DigitValues[c]

\* String.prototype.trim
trim(s) ==
    LET keep == {i \in 1..Len(s) : ~isSpace(s[i])}
    IN  IF keep = {} THEN <<>>
        ELSE LET first == CHOOSE i \in keep : \A j \in keep : i <= j
                 last == CHOOSE i \in keep : \A j \in keep : j <= i
             IN  SubSeq(s, first, last)

\* String.prototype.includes
includes(s, sub) ==
    \E i \in 0..(Len(s) - Len(sub)) : SubSeq(s, i + 1, i + Len(sub)) = sub

----------------------------------------------------------------------------
(* Numbers *)

RECURSIVE GCD(_, _)
GCD(a, b) == IF b = 0 THEN a ELSE GCD(b, a % b)

Abs(x) == IF x < 0 THEN -x ELSE x

\* the rational n/d in lowest terms, d > 0
Rat(n, d) ==
    LET g == GCD(Abs(n), d)
    IN  IF n = 0 THEN [n |-> 0, d |-> 1] ELSE [n |-> n \div g, d |-> d \div g]

NaN == [n |-> 0, d |-> 0]
Infinity == [n |-> 1, d |-> 0]

\* Number.isFinite
isFinite(x) == x.d # 0

\* x <= 0, x > 0 on finite numbers
isPositive(x) == x.n > 0

\* Number.prototype.toFixed(2) followed by Number.parseFloat: the nearest
\* multiple of 1/100, the larger one on an exact tie.
toFixed2(x) ==
    LET scaled == 100 * x.n
        q == scaled \div x.d
        r == scaled % x.d
    IN  IF 2 * r >= x.d THEN Rat(q + 1, 100) ELSE Rat(q, 100)

----------------------------------------------------------------------------
(* Values of unknown type *)

Null == [t |-> "null", v |-> 0]
Num(x) == [t |-> "number", v |-> x]
Str(s) == [t |-> "string", v |-> s]
Arr(a) == [t |-> "array", v |-> a]
\* an object is the sequence of its own enumerable [key, value] entries, in
\* the order Object.entries gives them
Obj(entries) == [t |-> "object", v |-> entries]
Bool(b) == [t |-> "boolean", v |-> b]

----------------------------------------------------------------------------
(* Recipe, MEAL_TYPES *)

BREAKFAST == <<"b","r","e","a","k","f","a","s","t">>
LUNCH == <<"l","u","n","c","h">>
DINNER == <<"d","i","n","n","e","r">>
SNACK == <<"s","n","a","c","k">>

MEAL_TYPES == <<BREAKFAST, LUNCH, DINNER, SNACK>>

MealTypeSet == {MEAL_TYPES[i] : i \in 1..Len(MEAL_TYPES)}

\* interface Recipe
Recipe(id, name, prepTime, ingredients, meal, servingsValue, instructions) ==
    [id |-> id, name |-> name, prepTime |-> prepTime, ingredients |-> ingredients,
     meal |-> meal, servings |-> servingsValue, instructions |-> instructions]

----------------------------------------------------------------------------
(* dedupeRecipes *)

\* Object.assign with its arguments' precedence swapped: target's values win
ObjectAssignTargetWins(target, source) ==
    [f \in (DOMAIN target) \cup (DOMAIN source) |->
        IF f \in DOMAIN target THEN target[f] ELSE source[f]]

\* Object.assign(target, source): every own property of source is written
\* onto target; properties only target has are kept.
ObjectAssign(target, source) ==
    [f \in (DOMAIN target) \cup (DOMAIN source) |->
        IF f \in DOMAIN source THEN source[f] ELSE target[f]]

\* the index built on the names as written, not lower-cased
seenOfCaseSensitive(existingRecipes) ==
    LET keys == {existingRecipes[i].name : i \in 1..Len(existingRecipes)}
    IN  [k \in keys |->
            CHOOSE i \in 1..Len(existingRecipes) :
                /\ existingRecipes[i].name = k
                /\ \A j \in 1..Len(existingRecipes) :
                       existingRecipes[j].name = k => j <= i]

\* new Map(existing.map((recipe) => [recipe.name.toLowerCase(), recipe])):
\* the Map holds references, modelled as positions in `merged` (which starts
\* as a copy of the array of the same objects); a later entry with the same
\* key replaces an earlier one.
seenOf(existingRecipes) ==
    LET keys == {toLowerCase(existingRecipes[i].name) : i \in 1..Len(existingRecipes)}
    IN  [k \in keys |->
            CHOOSE i \in 1..Len(existingRecipes) :
                /\ toLowerCase(existingRecipes[i].name) = k
                /\ \A j \in 1..Len(existingRecipes) :
                       toLowerCase(existingRecipes[j].name) = k => j <= i]

\* the loop without seen.set(key, recipe): a pushed record is not indexed
RECURSIVE dedupeLoopNoSet(_, _, _, _)
dedupeLoopNoSet(mergedSoFar, seen, incomingRecipes, k) ==
    IF k > Len(incomingRecipes) THEN mergedSoFar
    ELSE IF toLowerCase(incomingRecipes[k].name) \in DOMAIN seen
    THEN dedupeLoopNoSet(
           [mergedSoFar EXCEPT ![seen[toLowerCase(incomingRecipes[k].name)]] =
                                   ObjectAssign(@, incomingRecipes[k])],
           seen, incomingRecipes, k + 1)
    ELSE dedupeLoopNoSet(Append(mergedSoFar, incomingRecipes[k]), seen, incomingRecipes, k + 1)

\* incoming.forEach(...), from the k-th incoming record on
RECURSIVE dedupeLoop(_, _, _, _)
dedupeLoop(mergedSoFar, seen, incomingRecipes, k) ==
    IF k > Len(incomingRecipes) THEN mergedSoFar
    ELSE LET recipe == incomingRecipes[k]
             key == toLowerCase(recipe.name)
         IN  IF key \in DOMAIN seen
             THEN dedupeLoop(
                    [mergedSoFar EXCEPT ![seen[key]] = ObjectAssign(@, recipe)],
                    seen, incomingRecipes, k + 1)
             ELSE dedupeLoop(
                    Append(mergedSoFar, recipe),
                    seen @@ (key :> Len(mergedSoFar) + 1),
                    incomingRecipes, k + 1)

\* a merge that appends every incoming record
dedupeRecipesAppendOnly(existingRecipes, incomingRecipes) ==
    existingRecipes \o incomingRecipes

dedupeRecipes(existingRecipes, incomingRecipes) ==
    dedupeLoop(existingRecipes, seenOf(existingRecipes), incomingRecipes, 1)

\* `const merged = [...existing]` copies the array, not the records, and the
\* Map indexes the same records, which Object.assign writes: after the call
\* an array that held the records of `existing` reads the first
\* Len(existing) records of the result
recordsAfter(existingRecipes, mergedRecipes) ==
    SubSeq(mergedRecipes, 1, Len(existingRecipes))

----------------------------------------------------------------------------
(* The merge harness: dedupeRecipes applied to an existing collection and an
   incoming batch, then applied again to its own result and the same batch. *)

MaxExisting == 2
MaxIncoming == 3

\* generateId('recipe') results: the records of the existing collection and
\* the freshly numbered incoming records never share an identifier
ExistingIds == <<"recipe-e1", "recipe-e2", "recipe-e3", "recipe-e4">>
IncomingIds == <<"recipe-n1", "recipe-n2", "recipe-n3", "recipe-n4", "recipe-n5">>

ExistingNames == {<<"S","o">>, <<"s","o">>, <<"P","i">>}

\* [name, variant] of an incoming record
IncomingChoices ==
    {<< <<"S","o">>, 1 >>, << <<"s","o">>, 2 >>, << <<"P","i">>, 1 >>,
     << <<"p","i">>, 2 >>, << <<"T","a">>, 2 >>}

\* three records' worth of the fields other than id and name
VariantRecipe(id, name, variant) ==
    CASE variant = 0 ->
           Recipe(id, name, <<"5">>, << <<"x">> >>, LUNCH, Rat(2, 1), <<"m">>)
      [] variant = 1 ->
           Recipe(id, name, <<"7">>, << <<"y">>, <<"z">> >>, DINNER, Rat(5, 2), <<"p">>)
      [] OTHER ->
           Recipe(id, name, <<"9">>, << <<"w">> >>, SNACK, Rat(1, 1), <<"q">>)

ExistingPool ==
    UNION {
        {[i \in 1..n |-> VariantRecipe(ExistingIds[i], names[i], 0)] :
            names \in [1..n -> ExistingNames]} :
        n \in 0..MaxExisting}

IncomingPool ==
    UNION {
        {[i \in 1..n |-> VariantRecipe(IncomingIds[i], choice[i][1], choice[i][2])] :
            choice \in [1..n -> IncomingChoices]} :
        n \in 0..MaxIncoming}

\* the value of the variables a harness does not use
Idle == Null

IdleDedupe ==
    existing = Idle /\ incoming = Idle /\ merged = Idle /\ merged2 = Idle /\ snapshot = Idle
IdleParse == tokens = Idle /\ line = Idle /\ parsed = Idle
IdleServings == raw = Idle /\ servings = Idle
IdleImport == data = Idle /\ payload = Idle /\ validated = Idle
IdleApp == recipes = Idle /\ nextId = 0 /\ exported = Idle
IdlePlan == mealPlan = Idle /\ rangeStart = Idle /\ rangeEnd = Idle /\ outputs = Idle
IdleMeal == mealRaw = Idle /\ mealType = Idle
IdleLookup == fieldSource = Idle /\ fieldLookup = Idle
IdlePick == pickKeys = Idle /\ picked = Idle
IdleIngredients == ingredientSource = Idle /\ ingredientList = Idle
IdleHandler == call = Idle

InitDedupe ==
    /\ pc = "start"
    /\ existing \in ExistingPool
    /\ incoming \in IncomingPool
    /\ merged = <<>>
    /\ merged2 = <<>>
    /\ snapshot = existing
    /\ IdleParse /\ IdleServings /\ IdleImport /\ IdleApp
    /\ IdlePlan /\ IdleMeal /\ IdleLookup
    /\ IdlePick /\ IdleIngredients /\ IdleHandler

Dedupe ==
    /\ pc = "start"
    /\ merged' = dedupeRecipes(existing, incoming)
    /\ snapshot' = recordsAfter(existing, merged')
    /\ pc' = "merged"
    /\ UNCHANGED <<existing, incoming, merged2, parseVars, servingsVars, importVars, appVars,
                 planVars, mealVars, lookupVars,
                 pickVars, ingredientVars, handlerVars>>

DedupeAgain ==
    /\ pc = "merged"
    /\ merged2' = dedupeRecipes(merged, incoming)
    /\ snapshot' = recordsAfter(existing, merged2')
    /\ pc' = "again"
    /\ UNCHANGED <<existing, incoming, merged, parseVars, servingsVars, importVars, appVars,
                 planVars, mealVars, lookupVars,
                 pickVars, ingredientVars, handlerVars>>

NextDedupe == Dedupe \/ DedupeAgain

SpecDedupe == InitDedupe /\ [][NextDedupe]_vars

\* the lower-cased name a record is merged under
KeyOf(recipe) == toLowerCase(recipe.name)

\* the incoming positions whose key is the key of existing[i]
MatchesOf(i) == {k \in 1..Len(incoming) : KeyOf(incoming[k]) = KeyOf(existing[i])}

\* existing[i] is the record the merge updates for its key: the last one of
\* the existing collection with that key
IsMergeTarget(i) ==
    \A j \in 1..Len(existing) : KeyOf(existing[j]) = KeyOf(existing[i]) => j <= i

\* C1: after dedupeRecipes, the record at the position of an existing record
\* whose lower-cased name an incoming record shares still has the existing
\* record's id.
C1_ExistingIdKept ==
    pc # "start" =>
        \A i \in 1..Len(existing) :
            MatchesOf(i) # {} => merged[i].id = existing[i].id

LastOf(S) == CHOOSE k \in S : \A j \in S : j <= k

C3_Idempotent == pc = "again" => merged2 = merged

\* a second merge of a batch that both updated an existing record and
\* appended a new one, with a name repeated inside the batch
C3_Witness ==
    /\ pc = "again"
    /\ Len(merged) > Len(existing)
    /\ \E i \in 1..Len(existing) : MatchesOf(i) # {}
    /\ \E k, l \in 1..Len(incoming) : k # l /\ KeyOf(incoming[k]) = KeyOf(incoming[l])

ExistingKeys == {KeyOf(existing[i]) : i \in 1..Len(existing)}

\* the incoming positions that introduce a key: not a key of the existing
\* collection and not the key of an earlier incoming record
NewPositions ==
    {k \in 1..Len(incoming) :
        /\ KeyOf(incoming[k]) \notin ExistingKeys
        /\ \A j \in 1..(k - 1) : KeyOf(incoming[j]) # KeyOf(incoming[k])}

\* the j-th smallest element of a set of numbers
NthOf(S, j) == CHOOSE k \in S : Cardinality({m \in S : m <= k}) = j

\* C4: the result of dedupeRecipes is the existing records, none removed or
\* reordered (an unmatched one unchanged), followed by one record for each
\* incoming record whose lower-cased name was not present before it, in
\* incoming order.
C4_Order ==
    pc # "start" =>
        LET new == NewPositions
        IN  /\ Len(merged) = Len(existing) + Cardinality(new)
            /\ \A i \in 1..Len(existing) :
                /\ KeyOf(merged[i]) = KeyOf(existing[i])
                /\ (MatchesOf(i) = {} \/ ~IsMergeTarget(i)) => merged[i] = existing[i]
            /\ \A j \in 1..Cardinality(new) :
                LET appended == merged[Len(existing) + j]
                IN  /\ KeyOf(appended) = KeyOf(incoming[NthOf(new, j)])
                    /\ \E k \in 1..Len(incoming) : appended = incoming[k]

\* a merge that keeps two existing records, one of them updated, and appends
\* two new records after them
C4_Witness ==
    /\ pc = "merged"
    /\ Len(existing) = 2
    /\ \E i \in 1..2 : MatchesOf(i) # {}
    /\ Cardinality(NewPositions) = 2

\* C21: after the call every record that was in the existing collection has
\* the field values it had before: an array holding those records reads the
\* collection as it was passed in.
C21_ExistingUnmutated ==
    pc \in {"merged", "again"} => snapshot = existing

lowerNames(recipeList) == {toLowerCase(recipeList[i].name) : i \in 1..Len(recipeList)}

\* no two records share a lower-cased name
UniqueNames(recipeList) == Cardinality(lowerNames(recipeList)) = Len(recipeList)

\* C27: when no two existing records share a lower-cased name, no two
\* records of the result do, and the result has one record more than the
\* existing collection for every distinct lower-cased incoming name that
\* the existing collection lacks.
C27_UniqueNamesKept ==
    (pc = "merged" /\ UniqueNames(existing)) =>
        /\ UniqueNames(merged)
        /\ Len(merged) = Len(existing)
                           + Cardinality(lowerNames(incoming) \ lowerNames(existing))

C27_Witness ==
    /\ pc = "merged"
    /\ Len(existing) = 1
    /\ Len(incoming) = 3
    /\ Cardinality(lowerNames(incoming)) = 2
    /\ lowerNames(incoming) \cap lowerNames(existing) = {}
    /\ Len(merged) = 3

----------------------------------------------------------------------------
(* parseIngredientDetails *)

Undefined == [t |-> "undefined", v |-> 0]

\* String.prototype.split(/\s+/), from position i with the token `cur` open
RECURSIVE splitWhitespaceFrom(_, _, _)
splitWhitespaceFrom(s, i, cur) ==
    IF i > Len(s) THEN <<cur>>
    ELSE IF isSpace(s[i])
         THEN IF i > 1 /\ isSpace(s[i - 1])
              THEN splitWhitespaceFrom(s, i + 1, cur)
              ELSE <<cur>> \o splitWhitespaceFrom(s, i + 1, <<>>)
         ELSE splitWhitespaceFrom(s, i + 1, Append(cur, s[i]))

splitWhitespace(s) == splitWhitespaceFrom(s, 1, <<>>)

\* String.prototype.split(sep) for a one-character separator
RECURSIVE splitCharFrom(_, _, _, _)
splitCharFrom(s, sep, i, cur) ==
    IF i > Len(s) THEN <<cur>>
    ELSE IF s[i] = sep
         THEN <<cur>> \o splitCharFrom(s, sep, i + 1, <<>>)
         ELSE splitCharFrom(s, sep, i + 1, Append(cur, s[i]))

splitChar(s, sep) == splitCharFrom(s, sep, 1, <<>>)

\* Array.prototype.join(''): the parts run together
RECURSIVE joinEmpty(_)
joinEmpty(parts) ==
    IF Len(parts) = 0 THEN <<>> ELSE parts[1] \o joinEmpty(Tail(parts))

\* Array.prototype.join(' ')
RECURSIVE joinSpace(_)
joinSpace(parts) ==
    IF Len(parts) = 0 THEN <<>>
    ELSE IF Len(parts) = 1 THEN parts[1]
    ELSE parts[1] \o <<" ">> \o joinSpace(Tail(parts))

\* first.replace(/[()]/g, '')
stripParens(s) == SelectSeq(s, LAMBDA c : c \notin {"(", ")"})

\* the length of the longest run of digits of s that starts at position i
RECURSIVE digitRun(_, _)
digitRun(s, i) ==
    IF i <= Len(s) /\ isDigit(s[i]) THEN 1 + digitRun(s, i + 1) ELSE 0

\* the value of the decimal digits s[i..i+n-1]
RECURSIVE digitsValue(_, _, _)
digitsValue(s, i, n) ==
    IF n = 0 THEN 0 ELSE 10 * digitsValue(s, i, n - 1) + digitValue(s[i + n - 1])

\* the length of the longest run of white space of s that starts at position i
RECURSIVE spaceRun(_, _)
spaceRun(s, i) ==
    IF i <= Len(s) /\ isSpace(s[i]) THEN 1 + spaceRun(s, i + 1) ELSE 0

RECURSIVE pow10(_)
pow10(n) == IF n = 0 THEN 1 ELSE 10 * pow10(n - 1)

\* Number.parseFloat on a string: leading white space is skipped, then the
\* longest prefix [-]digits[.digits] is read; NaN without any digit.
\* (Exponents and the literal Infinity are outside the strings of the model.)
parseFloat(s) ==
    LET signedValue(negative, magnitude) ==
            IF negative THEN [magnitude EXCEPT !.n = -@] ELSE magnitude
        readFraction(negative, intAt, intLen, fracLen) ==
            IF intLen = 0 /\ fracLen = 0 THEN NaN
            ELSE signedValue(negative,
                             Rat(digitsValue(s, intAt, intLen) * pow10(fracLen)
                                    + digitsValue(s, intAt + intLen + 1, fracLen),
                                 pow10(fracLen)))
        readDot(negative, intAt, intLen, dotAt) ==
            readFraction(negative, intAt, intLen,
                         IF dotAt <= Len(s) /\ s[dotAt] = "."
                         THEN digitRun(s, dotAt + 1) ELSE 0)
        readInteger(negative, intAt, intLen) ==
            readDot(negative, intAt, intLen, intAt + intLen)
        readSign(start, negative, signed) ==
            readInteger(negative,
                        IF signed THEN start + 1 ELSE start,
                        digitRun(s, IF signed THEN start + 1 ELSE start))
        skipSpace(start) ==
            readSign(start,
                     start <= Len(s) /\ s[start] = "-",
                     start <= Len(s) /\ s[start] \in {"-", "+"})
    IN  skipSpace(1 + spaceRun(s, 1))

\* Number.parseFloat(undefined)
parseFloatUndefined == NaN

\* /^\d+$/
matchesDigits(s) == Len(s) > 0 /\ \A i \in 1..Len(s) : isDigit(s[i])

\* /^\d+[./]\d+$/
matchesDigitsDotOrSlashDigits(s) ==
    \E i \in 2..(Len(s) - 1) :
        /\ s[i] \in {".", "/"}
        /\ matchesDigits(SubSeq(s, 1, i - 1))
        /\ matchesDigits(SubSeq(s, i + 1, Len(s)))

\* /^\d+\.\d+$/
matchesDigitsDotDigits(s) ==
    \E i \in 2..(Len(s) - 1) :
        /\ s[i] = "."
        /\ matchesDigits(SubSeq(s, 1, i - 1))
        /\ matchesDigits(SubSeq(s, i + 1, Len(s)))

FRACTIONS ==
    (<<"1","/","2">> :> Rat(1, 2)) @@ (<<"1","/","3">> :> Rat(333, 1000)) @@
    (<<"2","/","3">> :> Rat(666, 1000)) @@ (<<"1","/","4">> :> Rat(1, 4)) @@
    (<<"3","/","4">> :> Rat(3, 4)) @@ (<<"1","/","8">> :> Rat(1, 8))

KNOWN_UNITS ==
    <<<<"g">>,
       <<"k","g">>,
       <<"m","g">>,
       <<"o","z">>,
       <<"l","b">>,
       <<"l","b","s">>,
       <<"m","l">>,
       <<"l">>,
       <<"c","u","p">>,
       <<"c","u","p","s">>,
       <<"t","s","p">>,
       <<"t","b","s","p">>,
       <<"c","l","o","v","e">>,
       <<"c","l","o","v","e","s">>,
       <<"s","l","i","c","e">>,
       <<"s","l","i","c","e","s">>,
       <<"p","i","e","c","e">>,
       <<"p","i","e","c","e","s">>,
       <<"c","a","n">>,
       <<"c","a","n","s">>,
       <<"p","a","c","k","e","t">>,
       <<"p","a","c","k","e","t","s">>,
       <<"b","u","n","c","h">>,
       <<"b","u","n","c","h","e","s">>>>

KNOWN_UNIT_SET == {KNOWN_UNITS[i] : i \in 1..Len(KNOWN_UNITS)}

\* num / den for a finite num and a finite non-zero den
divide(num, den) ==
    IF den.n < 0 THEN Rat(-(num.n * den.d), num.d * (-den.n))
    ELSE Rat(num.n * den.d, num.d * den.n)

\* evaluateFraction: the quotient as a number, or Null
evaluateFraction(expression) ==
    LET pieces == splitChar(expression, "/")
        num == parseFloat(pieces[1])
        den == IF Len(pieces) >= 2 THEN parseFloat(pieces[2]) ELSE parseFloatUndefined
    IN  IF ~isFinite(num) \/ ~isFinite(den) \/ den.n = 0 THEN Null
        ELSE Num(divide(num, den))

\* FRACTIONS[cleanFirst] ?? evaluateFraction(cleanFirst) without the table
fractionQuantityComputed(cleanFirst) == evaluateFraction(cleanFirst)

\* FRACTIONS[cleanFirst] ?? evaluateFraction(cleanFirst)
fractionQuantity(cleanFirst) ==
    IF cleanFirst \in DOMAIN FRACTIONS
    THEN Num(FRACTIONS[cleanFirst])
    ELSE evaluateFraction(cleanFirst)

\* the first-token branch of parseIngredientDetails: [quantity, startIndex]
\* (startIndex counts consumed tokens)
leadingQuantity(parts) ==
    LET cleanFirst == stripParens(parts[1])
    IN  IF matchesDigits(cleanFirst)
        THEN [quantity |-> Num(parseFloat(cleanFirst)), startIndex |-> 1]
        ELSE IF matchesDigitsDotOrSlashDigits(cleanFirst)
        THEN [quantity |-> fractionQuantity(cleanFirst), startIndex |-> 1]
        ELSE IF matchesDigitsDotDigits(cleanFirst)
        THEN [quantity |-> Num(parseFloat(cleanFirst)), startIndex |-> 1]
        ELSE [quantity |-> Null, startIndex |-> 0]

\* the fallback left out: the joined tokens even when there are none
orTrimmedNever(joined, trimmed) == joined

\* joined || trimmed
orTrimmed(joined, trimmed) == IF joined # <<>> THEN joined ELSE trimmed

parseIngredientDetails(rawLine) ==
    LET result(trimmed, quantity, unit, joined) ==
            [raw |-> trimmed,
             quantity |-> quantity,
             unit |-> unit,
             item |-> toLowerCase(orTrimmed(joined, trimmed))]
        withUnit(trimmed, parts, quantity, startIndex, isUnit, unitCandidate) ==
            result(trimmed, quantity,
                   IF isUnit THEN Str(unitCandidate) ELSE Undefined,
                   joinSpace(SubSeq(parts,
                                    (IF isUnit THEN startIndex + 1 ELSE startIndex) + 1,
                                    Len(parts))))
        withCandidate(trimmed, parts, quantity, startIndex, unitCandidate) ==
            withUnit(trimmed, parts, quantity, startIndex,
                     unitCandidate # <<>> /\ unitCandidate \in KNOWN_UNIT_SET,
                     unitCandidate)
        withLead(trimmed, parts, lead) ==
            withCandidate(trimmed, parts, lead.quantity, lead.startIndex,
                          IF lead.startIndex + 1 <= Len(parts)
                          THEN toLowerCase(parts[lead.startIndex + 1])
                          ELSE <<>>)
        withParts(trimmed, parts) == withLead(trimmed, parts, leadingQuantity(parts))
        withTrimmed(trimmed) == withParts(trimmed, splitWhitespace(trimmed))
    IN  withTrimmed(trim(rawLine))

----------------------------------------------------------------------------
(* The parser harness: parseIngredientDetails applied to a line written from
   up to MaxTokens tokens. *)

MaxTokens == 4

\* the tokens a line starts with
TokenPool ==
    {<<"1","2">>, <<"(","3",")">>, <<"1",".","5">>, <<"1","/","2">>,
     <<"1","/","3">>, <<"3","/","2">>, <<"2","/","0">>, <<"0","/","5">>,
     <<"c","u","p","s">>, <<"C","u","p">>,
     <<"f","l","o","u","r">>, <<"E","g","g">>}

\* the tokens that follow the first one
TailPool ==
    {<<"1","2">>, <<"1","/","2">>,
     <<"c","u","p","s">>, <<"C","u","p">>,
     <<"f","l","o","u","r">>, <<"E","g","g">>}

\* how a line is written: 1 with single spaces, 2 with a tab and a space
\* between the tokens, a leading space and a trailing line break
Layouts == {1, 2}

RECURSIVE writeTokens(_, _)
writeTokens(toks, sep) ==
    IF Len(toks) = 1 THEN toks[1]
    ELSE toks[1] \o sep \o writeTokens(Tail(toks), sep)

writeLine(toks, layout) ==
    IF layout = 1 THEN writeTokens(toks, <<" ">>)
    ELSE <<" ">> \o writeTokens(toks, <<"\t", " ">>) \o <<"\n">>

InitParse ==
    /\ pc = "start"
    /\ \E first \in TokenPool :
         \E rest \in UNION {[1..n -> TailPool] : n \in 0..(MaxTokens - 1)} :
            tokens = <<first>> \o rest
    /\ \E layout \in Layouts : line = writeLine(tokens, layout)
    /\ parsed = Idle
    /\ IdleDedupe /\ IdleServings /\ IdleImport /\ IdleApp
    /\ IdlePlan /\ IdleMeal /\ IdleLookup
    /\ IdlePick /\ IdleIngredients /\ IdleHandler

Parse ==
    /\ pc = "start"
    /\ parsed' = parseIngredientDetails(line)
    /\ pc' = "parsed"
    /\ UNCHANGED <<tokens, line, dedupeVars, servingsVars, importVars, appVars,
                 planVars, mealVars, lookupVars,
                 pickVars, ingredientVars, handlerVars>>

NextParse == Parse

SpecParse == InitParse /\ [][NextParse]_vars

AllDigits(tok) == tok # <<>> /\ \A i \in 1..Len(tok) : tok[i] \in DOMAIN DigitValues

\* the number a string of digits denotes
RECURSIVE NatOf(_)
NatOf(tok) ==
    IF tok = <<>> THEN 0
    ELSE 10 * NatOf(SubSeq(tok, 1, Len(tok) - 1)) + DigitValues[tok[Len(tok)]]

\* the token has the form digits.digits
IsDecimalToken(tok) ==
    \E i \in 2..(Len(tok) - 1) :
        tok[i] = "." /\ AllDigits(SubSeq(tok, 1, i - 1)) /\ AllDigits(SubSeq(tok, i + 1, Len(tok)))

\* the number a digits.digits token denotes
DecimalOf(tok) ==
    LET dot == CHOOSE i \in 1..Len(tok) : tok[i] = "."
        frac == SubSeq(tok, dot + 1, Len(tok))
    IN  Rat(NatOf(SubSeq(tok, 1, dot - 1)) * pow10(Len(frac)) + NatOf(frac), pow10(Len(frac)))

\* the tokens from position i on, lower-cased, one space between them
RECURSIVE ItemText(_, _)
ItemText(toks, i) ==
    IF i > Len(toks) THEN <<>>
    ELSE IF i = Len(toks) THEN toLowerCase(toks[i])
    ELSE toLowerCase(toks[i]) \o <<" ">> \o ItemText(toks, i + 1)

IsUnitToken(tok) == toLowerCase(tok) \in KNOWN_UNIT_SET

\* the item of a line whose first token was consumed as the quantity
ItemAfterQuantity(toks) ==
    LET from == IF Len(toks) >= 2 /\ IsUnitToken(toks[2]) THEN 3 ELSE 2
    IN  IF from > Len(toks) THEN ItemText(toks, 1) ELSE ItemText(toks, from)

\* C9: on a line whose first token has the form digits.digits,
\* parseIngredientDetails returns that decimal as the quantity and consumes
\* the token (the item is made of the tokens after it).
C9_DecimalQuantity ==
    (pc = "parsed" /\ IsDecimalToken(tokens[1])) =>
        /\ parsed.quantity = Num(DecimalOf(tokens[1]))
        /\ parsed.item = ItemAfterQuantity(tokens)

\* C10: on a line "<int> <unit> <item tokens...>" (all-digit first token,
\* known unit second, at least one item token) parseIngredientDetails returns
\* the integer as quantity, the lower-cased unit token as unit and the item
\* tokens, lower-cased and joined by single spaces, as item.
C10_IntUnitItem ==
    (/\ pc = "parsed"
     /\ Len(tokens) >= 3
     /\ AllDigits(tokens[1])
     /\ IsUnitToken(tokens[2])) =>
        /\ parsed.quantity = Num(Rat(NatOf(tokens[1]), 1))
        /\ parsed.unit = Str(toLowerCase(tokens[2]))
        /\ parsed.item = ItemText(tokens, 3)

\* the line "12 Cup Egg flour" written with tabs and padding, parsed
C10_Witness ==
    /\ pc = "parsed"
    /\ tokens = << <<"1","2">>, <<"C","u","p">>, <<"E","g","g">>, <<"f","l","o","u","r">> >>
    /\ line # writeLine(tokens, 1)
    /\ parsed.quantity = Num(Rat(12, 1))
    /\ parsed.item = <<"e","g","g"," ","f","l","o","u","r">>

\* the token has the form digits/digits
IsFractionToken(tok) ==
    \E i \in 2..(Len(tok) - 1) :
        tok[i] = "/" /\ AllDigits(SubSeq(tok, 1, i - 1)) /\ AllDigits(SubSeq(tok, i + 1, Len(tok)))

SlashOf(tok) == CHOOSE i \in 1..Len(tok) : tok[i] = "/"
NumeratorOf(tok) == NatOf(SubSeq(tok, 1, SlashOf(tok) - 1))
DenominatorOf(tok) == NatOf(SubSeq(tok, SlashOf(tok) + 1, Len(tok)))

\* the fraction literals and their values
TableValue ==
    (<<"1","/","2">> :> Rat(5, 10)) @@ (<<"1","/","3">> :> Rat(333, 1000)) @@
    (<<"2","/","3">> :> Rat(666, 1000)) @@ (<<"1","/","4">> :> Rat(25, 100)) @@
    (<<"3","/","4">> :> Rat(75, 100)) @@ (<<"1","/","8">> :> Rat(125, 1000))

\* C11: on a line whose first token has the form digits/digits the quantity
\* is the table value when the token is one of 1/2, 1/3, 2/3, 1/4, 3/4, 1/8
\* and otherwise (denominator not zero) the quotient numerator/denominator.
C11_FractionQuantity ==
    (pc = "parsed" /\ IsFractionToken(tokens[1])) =>
        IF tokens[1] \in DOMAIN TableValue
        THEN parsed.quantity = Num(TableValue[tokens[1]])
        ELSE DenominatorOf(tokens[1]) # 0 =>
                parsed.quantity = Num(Rat(NumeratorOf(tokens[1]), DenominatorOf(tokens[1])))

\* the line "1/3 Cup flour" parsed: 0.333, not the quotient
C11_Witness ==
    /\ pc = "parsed"
    /\ tokens = << <<"1","/","3">>, <<"C","u","p">>, <<"f","l","o","u","r">> >>
    /\ parsed.quantity = Num(Rat(333, 1000))
    /\ parsed.quantity # Num(Rat(1, 3))
    /\ parsed.unit = Str(<<"c","u","p">>)

\* the token is consumed as the quantity: without parentheses it is digits,
\* digits.digits or digits/digits
IsQuantityToken(tok) ==
    LET bare == SelectSeq(tok, LAMBDA c : c \notin {"(", ")"})
    IN  AllDigits(bare) \/ IsDecimalToken(bare) \/ IsFractionToken(bare)

\* the quantity and unit tokens are all the tokens of the line
ConsumesAll(toks) ==
    \/ Len(toks) = 1 /\ (IsQuantityToken(toks[1]) \/ IsUnitToken(toks[1]))
    \/ Len(toks) = 2 /\ IsQuantityToken(toks[1]) /\ IsUnitToken(toks[2])

\* C13: for a line with at least one token the item is not empty; when the
\* quantity and unit tokens are all the tokens of the line, the item is the
\* whole trimmed line, lower-cased.
C13_ItemNonEmpty ==
    pc = "parsed" =>
        /\ parsed.item # <<>>
        /\ ConsumesAll(tokens) => parsed.item = toLowerCase(trim(line))

\* the line "12 Cup" written with a tab and padding: quantity and unit
\* consume both tokens and the item is the trimmed line
C13_Witness ==
    /\ pc = "parsed"
    /\ tokens = << <<"1","2">>, <<"C","u","p">> >>
    /\ line # writeLine(tokens, 1)
    /\ parsed.quantity = Num(Rat(12, 1))
    /\ parsed.unit = Str(<<"c","u","p">>)
    /\ parsed.item = <<"1","2","\t"," ","c","u","p">>

----------------------------------------------------------------------------
(* normalizeServings *)

\* typeof raw === 'number', 'string'
isNumber(value) == value.t = "number"
isString(value) == value.t = "string"

normalizeServings(rawValue) ==
    IF isNumber(rawValue)
    THEN IF ~isFinite(rawValue.v) \/ ~isPositive(rawValue.v) THEN Null
         ELSE Num(toFixed2(rawValue.v))
    ELSE IF isString(rawValue)
    THEN LET trimmed == trim(rawValue.v)
             numeric == parseFloat(trimmed)
         IN  IF trimmed = <<>> THEN Null
             ELSE IF ~isFinite(numeric) \/ ~isPositive(numeric) THEN Null
             ELSE Num(toFixed2(numeric))
    ELSE Null

----------------------------------------------------------------------------
(* The servings harness: normalizeServings applied to one raw value. *)

\* numeric inputs are the thousandths from -MinMilli to MaxMilli
MinMilli == 3
MaxMilli == 60

\* a decimal that lies exactly between two hundredths is rounded by toFixed
\* according to its binary expansion unless it is a binary fraction itself;
\* such inputs are left out
IsInexactTie(milli) == milli % 10 = 5 /\ milli % 125 # 0

ServingsNumbers ==
    {Num(Rat(k, 1000)) : k \in {m \in (0 - MinMilli)..MaxMilli : ~IsInexactTie(m)}}
    \cup {Num(Rat(1234, 1000)), Num(Rat(2, 1)), Num(Rat(1125, 1000)), Num(Rat(4004, 1000)),
          Num(NaN), Num(Infinity)}

ServingsStrings ==
    {Str(<<>>), Str(<<" ", " ">>), Str(<<"a","b","c">>), Str(<<"4">>),
     Str(<<" ","2",".","5"," ">>), Str(<<"0",".","0","0","4">>), Str(<<"-","1">>),
     Str(<<"0">>), Str(<<"4",".","0","0","4">>), Str(<<"3"," ","c","u","p","s">>),
     Str(<<".","5">>), Str(<<"1",".","2","3","6">>)}

ServingsOthers == {Null, Undefined, Bool(TRUE), Arr(<< Num(Rat(2, 1)) >>), Obj(<<>>)}

ServingsInputs == ServingsNumbers \cup ServingsStrings \cup ServingsOthers

InitServings ==
    /\ pc = "start"
    /\ raw \in ServingsInputs
    /\ servings = Idle
    /\ IdleDedupe /\ IdleParse /\ IdleImport /\ IdleApp
    /\ IdlePlan /\ IdleMeal /\ IdleLookup
    /\ IdlePick /\ IdleIngredients /\ IdleHandler

NormalizeServings ==
    /\ pc = "start"
    /\ servings' = normalizeServings(raw)
    /\ pc' = "normalized"
    /\ UNCHANGED <<raw, dedupeVars, parseVars, importVars, appVars,
                 planVars, mealVars, lookupVars,
                 pickVars, ingredientVars, handlerVars>>

NextServings == NormalizeServings

SpecServings == InitServings /\ [][NextServings]_vars

\* a finite number with at most two decimals
HasTwoDecimals(x) == x.d # 0 /\ 100 % x.d = 0

\* C7: normalizeServings returns null or a strictly positive number with two
\* decimals, for every numeric or string input.
C7_ServingsPositive ==
    pc = "normalized" =>
        \/ servings = Null
        \/ /\ servings.t = "number"
           /\ servings.v.n > 0
           /\ HasTwoDecimals(servings.v)

----------------------------------------------------------------------------
(* coerceRecipePayload, validateImportedRecipes and their helpers *)

\* stands for the character U+2022 (bullet)
BULLET == "bullet"

\* the truthiness of a value (!value is its negation)
truthy(value) ==
    CASE value.t = "null" -> FALSE
      [] value.t = "undefined" -> FALSE
      [] value.t = "boolean" -> value.v
      [] value.t = "number" -> value.v # NaN /\ value.v.n # 0
      [] value.t = "string" -> value.v # <<>>
      [] OTHER -> TRUE

\* typeof value === 'object'
isObjectType(value) == value.t \in {"object", "array", "null"}

\* Array.isArray
isArray(value) == value.t = "array"

\* value[key] for a property name that is not an array index
getProp(value, key) ==
    IF value.t = "object" /\ \E i \in 1..Len(value.v) : value.v[i][1] = key
    THEN value.v[CHOOSE i \in 1..Len(value.v) : value.v[i][1] = key][2]
    ELSE Undefined

\* String(n) for a natural number
RECURSIVE natToString(_)
natToString(n) ==
    IF n < 10 THEN <<Digits[n + 1]>>
    ELSE natToString(n \div 10) \o <<Digits[(n % 10) + 1]>>

\* Object.entries of an object or an array
objectEntries(value) ==
    IF value.t = "array"
    THEN [i \in 1..Len(value.v) |-> <<natToString(i - 1), value.v[i]>>]
    ELSE value.v

K_recipes == <<"r","e","c","i","p","e","s">>
K_name == <<"n","a","m","e">>
K_prep_time == <<"p","r","e","p","_","t","i","m","e">>
K_prep_space_time == <<"p","r","e","p"," ","t","i","m","e">>
K_preptime == <<"p","r","e","p","t","i","m","e">>
K_instructions == <<"i","n","s","t","r","u","c","t","i","o","n","s">>
K_instruction == <<"i","n","s","t","r","u","c","t","i","o","n">>
K_directions == <<"d","i","r","e","c","t","i","o","n","s">>
K_method == <<"m","e","t","h","o","d">>
K_meal == <<"m","e","a","l">>
K_meal_space_type == <<"m","e","a","l"," ","t","y","p","e">>
K_meal_type == <<"m","e","a","l","_","t","y","p","e">>
K_course == <<"c","o","u","r","s","e">>
K_category == <<"c","a","t","e","g","o","r","y">>
K_ingredients == <<"i","n","g","r","e","d","i","e","n","t","s">>
K_servings == <<"s","e","r","v","i","n","g","s">>

\* coerceRecipePayload without its bare-array branch
coerceRecipePayloadObjectOnly(value) ==
    IF truthy(value) /\ isObjectType(value) /\ isArray(getProp(value, K_recipes))
    THEN value
    ELSE Obj(<< <<K_recipes, Arr(<<>>)>> >>)

coerceRecipePayload(value) ==
    IF truthy(value) /\ isObjectType(value) /\ isArray(getProp(value, K_recipes))
    THEN value
    ELSE IF isArray(value)
    THEN Obj(<< <<K_recipes, value>> >>)
    ELSE Obj(<< <<K_recipes, Arr(<<>>)>> >>)

\* key.toLowerCase().replace(/[\s_-]+/g, '')
normalizeFieldKey(key) ==
    SelectSeq(toLowerCase(key), LAMBDA c : ~isSpace(c) /\ c \notin {"_", "-"})

\* Object.entries(source).forEach(...), from the i-th entry on; the Map is a
\* function from normalized keys to values
RECURSIVE lookupFrom(_, _, _)
lookupFrom(entries, i, lookup) ==
    IF i > Len(entries) THEN lookup
    ELSE LET key == entries[i][1]
             value == entries[i][2]
             normalized == normalizeFieldKey(key)
         IN  IF key = <<>> THEN lookupFrom(entries, i + 1, lookup)
             ELSE IF normalized \in DOMAIN lookup THEN lookupFrom(entries, i + 1, lookup)
             ELSE lookupFrom(entries, i + 1, lookup @@ (normalized :> value))

EmptyMap == [k \in {} |-> Undefined]

\* the last raw key of a normalized form wins
createFlexibleFieldLookupLastWins(source) ==
    LET reversed(entries) == [i \in 1..Len(entries) |-> entries[Len(entries) + 1 - i]]
    IN  lookupFrom(reversed(objectEntries(source)), 1, EmptyMap)

createFlexibleFieldLookup(source) == lookupFrom(objectEntries(source), 1, EmptyMap)

\* Map.prototype.get
mapGet(lookup, key) == IF key \in DOMAIN lookup THEN lookup[key] ELSE Undefined

\* pickStringField, from the i-th candidate key on: Str(trimmed) or Null
RECURSIVE pickStringFieldFrom(_, _, _)
pickStringFieldFrom(lookup, keys, i) ==
    IF i > Len(keys) THEN Null
    ELSE LET value == mapGet(lookup, normalizeFieldKey(keys[i]))
         IN  IF isString(value) /\ trim(value.v) # <<>>
             THEN Str(trim(value.v))
             ELSE pickStringFieldFrom(lookup, keys, i + 1)

\* the candidates tried from the last to the first
pickStringFieldLastWins(lookup, keys) ==
    pickStringFieldFrom(lookup, [i \in 1..Len(keys) |-> keys[Len(keys) + 1 - i]], 1)

pickStringField(lookup, keys) == pickStringFieldFrom(lookup, keys, 1)

W_dessert == <<"d","e","s","s","e","r","t">>
W_sweet == <<"s","w","e","e","t">>
W_treat == <<"t","r","e","a","t">>
W_supper == <<"s","u","p","p","e","r">>

\* lunch found before dinner is looked for
normalizeMealTypeFieldLunchFirst(rawMeal) ==
    IF ~truthy(rawMeal) THEN Null
    ELSE LET value == toLowerCase(trim(rawMeal.v))
         IN  IF value = <<>> THEN Null
             ELSE IF includes(value, BREAKFAST) THEN Str(BREAKFAST)
             ELSE IF includes(value, SNACK) THEN Str(SNACK)
             ELSE IF includes(value, W_dessert) \/ includes(value, W_sweet)
                       \/ includes(value, W_treat) THEN Str(SNACK)
             ELSE IF includes(value, LUNCH) THEN Str(LUNCH)
             ELSE IF includes(value, DINNER) \/ includes(value, W_supper) THEN Str(DINNER)
             ELSE Null

\* normalizeMealTypeField: Str(meal type) or Null
normalizeMealTypeField(rawMeal) ==
    IF ~truthy(rawMeal) THEN Null
    ELSE LET value == toLowerCase(trim(rawMeal.v))
         IN  IF value = <<>> THEN Null
             ELSE IF value = BREAKFAST \/ includes(value, BREAKFAST) THEN Str(BREAKFAST)
             ELSE IF value = SNACK \/ includes(value, SNACK) THEN Str(SNACK)
             ELSE IF includes(value, W_dessert) \/ includes(value, W_sweet)
                       \/ includes(value, W_treat) THEN Str(SNACK)
             ELSE IF value = LUNCH \/ (includes(value, LUNCH) /\ ~includes(value, DINNER))
                  THEN Str(LUNCH)
             ELSE IF includes(value, DINNER) \/ includes(value, W_supper) THEN Str(DINNER)
             ELSE Null

\* trimmed.split(/\r?\n|[,;•]/), from position i with the segment cur open
RECURSIVE splitIngredientTextFrom(_, _, _)
splitIngredientTextFrom(s, i, cur) ==
    IF i > Len(s) THEN <<cur>>
    ELSE IF s[i] = "\r" /\ i + 1 <= Len(s) /\ s[i + 1] = "\n"
    THEN <<cur>> \o splitIngredientTextFrom(s, i + 2, <<>>)
    ELSE IF s[i] \in {"\n", ",", ";", BULLET}
    THEN <<cur>> \o splitIngredientTextFrom(s, i + 1, <<>>)
    ELSE splitIngredientTextFrom(s, i + 1, Append(cur, s[i]))

\* segment.replace(/^[\-•*]\s*/, '')
stripMarker(segment) ==
    IF segment # <<>> /\ segment[1] \in {"-", BULLET, "*"}
    THEN SubSeq(segment, 2 + spaceRun(segment, 2), Len(segment))
    ELSE segment

\* the filter left out: empty strings are kept
nonEmptyKeepsAll(seqOfStrings) == seqOfStrings

nonEmpty(seqOfStrings) == SelectSeq(seqOfStrings, LAMBDA x : x # <<>>)

\* the text split and nothing else: no fall back to the trimmed text
normalizeImportedIngredientsNoFallback(rawValue) ==
    IF isArray(rawValue)
    THEN nonEmpty([i \in 1..Len(rawValue.v) |->
                      IF isString(rawValue.v[i]) THEN trim(rawValue.v[i].v) ELSE <<>>])
    ELSE IF isString(rawValue)
    THEN LET segments == splitIngredientTextFrom(trim(rawValue.v), 1, <<>>)
         IN  nonEmpty([i \in 1..Len(segments) |-> trim(stripMarker(segments[i]))])
    ELSE <<>>

\* normalizeImportedIngredients: a sequence of strings
normalizeImportedIngredients(rawValue) ==
    IF isArray(rawValue)
    THEN nonEmpty([i \in 1..Len(rawValue.v) |->
                      IF isString(rawValue.v[i]) THEN trim(rawValue.v[i].v) ELSE <<>>])
    ELSE IF isString(rawValue)
    THEN LET trimmed == trim(rawValue.v)
             segments == splitIngredientTextFrom(trimmed, 1, <<>>)
             candidates == nonEmpty([i \in 1..Len(segments) |->
                                        trim(stripMarker(segments[i]))])
         IN  IF trimmed = <<>> THEN <<>>
             ELSE IF Len(candidates) > 0 THEN candidates ELSE <<trimmed>>
    ELSE <<>>

\* interface ImportedRecipe
ImportedRecipe(name, prepTime, instructions, meal, ingredients, servingsValue) ==
    [name |-> name, prep_time |-> prepTime, instructions |-> instructions,
     meal |-> meal, ingredients |-> ingredients, servings |-> servingsValue]

Kept(recipe) == [t |-> "recipe", v |-> recipe]

\* the meal of the first alias whose text classifies, from the i-th on
RECURSIVE classifyFirst(_, _, _)
classifyFirst(lookup, keys, i) ==
    IF i > Len(keys) THEN Null
    ELSE IF normalizeMealTypeField(pickStringField(lookup, <<keys[i]>>)) # Null
    THEN normalizeMealTypeField(pickStringField(lookup, <<keys[i]>>))
    ELSE classifyFirst(lookup, keys, i + 1)

\* every alias of the meal is tried until one classifies
validateCandidateAnyAlias(candidate) ==
    IF ~truthy(candidate) \/ ~isObjectType(candidate) THEN Null
    ELSE LET lookup == createFlexibleFieldLookup(candidate)
             name == pickStringField(lookup, <<K_name>>)
             prepTime == pickStringField(lookup,
                            <<K_prep_time, K_prep_space_time, K_preptime>>)
             instructions == pickStringField(lookup,
                            <<K_instructions, K_instruction, K_directions, K_method>>)
             meal == classifyFirst(lookup,
                            <<K_meal, K_meal_space_type, K_meal_type, K_course, K_category>>, 1)
             ingredients ==
                 normalizeImportedIngredients(mapGet(lookup, normalizeFieldKey(K_ingredients)))
             servingsValue == normalizeServings(mapGet(lookup, normalizeFieldKey(K_servings)))
         IN  IF \/ ~truthy(name)
                \/ ~truthy(prepTime)
                \/ ~truthy(instructions)
                \/ ~truthy(meal)
                \/ Len(ingredients) = 0
                \/ servingsValue = Null
             THEN Null
             ELSE Kept(ImportedRecipe(name.v, prepTime.v, instructions.v, meal.v,
                                      ingredients, servingsValue.v))

\* the callback of payload.recipes.map: Kept(an ImportedRecipe) or Null
validateCandidate(candidate) ==
    IF ~truthy(candidate) \/ ~isObjectType(candidate) THEN Null
    ELSE LET lookup == createFlexibleFieldLookup(candidate)
             name == pickStringField(lookup, <<K_name>>)
             prepTime == pickStringField(lookup,
                            <<K_prep_time, K_prep_space_time, K_preptime>>)
             instructions == pickStringField(lookup,
                            <<K_instructions, K_instruction, K_directions, K_method>>)
             meal == normalizeMealTypeField(pickStringField(lookup,
                            <<K_meal, K_meal_space_type, K_meal_type, K_course, K_category>>))
             ingredientsRaw == mapGet(lookup, normalizeFieldKey(K_ingredients))
             ingredients == normalizeImportedIngredients(ingredientsRaw)
             servingsValue == normalizeServings(mapGet(lookup, normalizeFieldKey(K_servings)))
         IN  IF \/ ~truthy(name)
                \/ ~truthy(prepTime)
                \/ ~truthy(instructions)
                \/ ~truthy(meal)
                \/ Len(ingredients) = 0
                \/ servingsValue = Null
             THEN Null
             ELSE Kept(ImportedRecipe(name.v, prepTime.v, instructions.v, meal.v,
                                      ingredients, servingsValue.v))

validateImportedRecipes(payloadValue) ==
    IF ~truthy(payloadValue) \/ ~isArray(getProp(payloadValue, K_recipes)) THEN <<>>
    ELSE LET candidates == getProp(payloadValue, K_recipes).v
             mapped == [i \in 1..Len(candidates) |-> validateCandidate(candidates[i])]
             kept == SelectSeq(mapped, LAMBDA r : r.t # "null")
         IN  [i \in 1..Len(kept) |-> kept[i].v]

----------------------------------------------------------------------------
(* The import harness: coerceRecipePayload and validateImportedRecipes
   applied to one parsed JSON value. *)

MaxRecords == 3

\* replaces the entry of `entries` with key `key` by the entries `by`
RECURSIVE replaceEntry(_, _, _)
replaceEntry(entries, key, by) ==
    IF entries = <<>> THEN <<>>
    ELSE IF entries[1][1] = key THEN by \o Tail(entries)
    ELSE <<entries[1]>> \o replaceEntry(Tail(entries), key, by)

\* a raw record with the canonical keys; strings carry white space to trim
BaseEntries(name) ==
    << <<K_name, Str(name)>>,
       <<K_prep_time, Str(<<"5"," ","m"," ">>)>>,
       <<K_meal, Str(<<"D","i","n","n","e","r">>)>>,
       <<K_servings, Num(Rat(5, 2))>>,
       <<K_ingredients, Arr(<< Str(<<" ","2"," ","e","g","g","s">>), Str(<<" ">>), Num(Rat(3, 1)), Str(<<"r","i","c","e">>) >>)>>,
       <<K_instructions, Str(<<"M","i","x"," ">>)>> >>

N_Soup == <<"S","o","u","p">>
N_Pie == <<"P","i","e">>
N_Tea == <<"T","e","a">>
N_Bun == <<"B","u","n">>

CandBase == Obj(BaseEntries(<<" ","S","o","u","p"," ">>))

\* alias keys in other spellings, free-text meal, ingredients and servings
\* given as strings
CandAliases ==
    Obj(<< <<<<"N","A","M","E">>, Str(N_Pie)>>,
           <<<<"P","r","e","p"," ","T","i","m","e">>, Str(<<"1"," ","h">>)>>,
           <<<<"C","o","u","r","s","e">>, Str(<<"L","u","n","c","h"," ","a","n","d"," ","D","i","n","n","e","r">>)>>,
           <<<<"S","e","r","v","i","n","g","s">>, Str(<<" ","4"," ">>)>>,
           <<<<"I","n","g","r","e","d","i","e","n","t","s">>, Str(<<"-"," ","a",","," ","b",";",BULLET,"c">>)>>,
           <<<<"M","e","t","h","o","d">>, Str(<<"S","t","i","r">>)>> >>)

\* servings 0.004
CandTinyServings ==
    Obj(replaceEntry(BaseEntries(N_Tea), K_servings, << <<K_servings, Num(Rat(4, 1000))>> >>))

CandBlankName == Obj(BaseEntries(<<" ", " ">>))

\* "Prep_Time" holds an empty string and comes before "prep time"
CandPrepTwice ==
    Obj(replaceEntry(BaseEntries(N_Bun), K_prep_time,
            << <<<<"P","r","e","p","_","T","i","m","e">>, Str(<<>>)>>, <<K_prep_space_time, Str(<<"9"," ","m">>)>> >>))

CandBadMeal ==
    Obj(replaceEntry(BaseEntries(N_Bun), K_meal, << <<K_meal, Str(<<"b","r","u","n","c","h">>)>> >>))

CandNoIngredients ==
    Obj(replaceEntry(BaseEntries(N_Bun), K_ingredients,
            << <<K_ingredients, Arr(<< Str(<<" ">>), Num(Rat(1, 1)) >>)>> >>))

CandBadServings ==
    Obj(replaceEntry(BaseEntries(N_Bun), K_servings, << <<K_servings, Str(<<"a","b","c">>)>> >>))

CandidatePool ==
    {CandBase, CandAliases, CandTinyServings, CandBlankName, CandPrepTwice,
     CandBadMeal, CandNoIngredients, CandBadServings,
     Null, Str(N_Soup)}

\* the candidates every required field of which resolves, with the name each
\* resolves to
ResolvedName ==
    (CandBase :> N_Soup) @@ (CandAliases :> N_Pie) @@ (CandTinyServings :> N_Tea)

CandidateArrays == UNION {[1..n -> CandidatePool] : n \in 0..MaxRecords}

\* top-level values that are neither {recipes: [...]} nor an array
MalformedData ==
    {Null, Num(Rat(5, 1)), Str(N_Soup), Bool(TRUE), Obj(<<>>),
     Obj(<< <<K_recipes, Str(N_Soup)>> >>), Obj(<< <<K_recipes, CandBase>> >>),
     Obj(<< <<<<"R","e","c","i","p","e","s">>, Arr(<<CandBase>>)>> >>)}

DataPool ==
    {Arr(a) : a \in CandidateArrays}
    \cup {Obj(<< <<<<"t","i","t","l","e">>, Str(N_Pie)>>, <<K_recipes, Arr(a)>> >>) : a \in CandidateArrays}
    \cup MalformedData

InitImport ==
    /\ pc = "start"
    /\ data \in DataPool
    /\ payload = Idle
    /\ validated = <<>>
    /\ IdleDedupe /\ IdleParse /\ IdleServings /\ IdleApp
    /\ IdlePlan /\ IdleMeal /\ IdleLookup
    /\ IdlePick /\ IdleIngredients /\ IdleHandler

Coerce ==
    /\ pc = "start"
    /\ payload' = coerceRecipePayload(data)
    /\ pc' = "coerced"
    /\ UNCHANGED <<data, validated, dedupeVars, parseVars, servingsVars, appVars,
                 planVars, mealVars, lookupVars,
                 pickVars, ingredientVars, handlerVars>>

Validate ==
    /\ pc = "coerced"
    /\ validated' = validateImportedRecipes(payload)
    /\ pc' = "validated"
    /\ UNCHANGED <<data, payload, dedupeVars, parseVars, servingsVars, appVars,
                 planVars, mealVars, lookupVars,
                 pickVars, ingredientVars, handlerVars>>

NextImport == Coerce \/ Validate

SpecImport == InitImport /\ [][NextImport]_vars

\* data is an object with a recipes array
HasRecipesArray(value) ==
    /\ value.t = "object"
    /\ \E i \in 1..Len(value.v) : value.v[i][1] = K_recipes /\ value.v[i][2].t = "array"

\* the raw records of data
SourceCandidates ==
    IF data.t = "array" THEN data.v
    ELSE IF HasRecipesArray(data)
    THEN (CHOOSE e \in {data.v[i] : i \in 1..Len(data.v)} : e[1] = K_recipes)[2].v
    ELSE <<>>

IsTrimmedNonEmpty(str) ==
    str # <<>> /\ ~isSpace(str[1]) /\ ~isSpace(str[Len(str)])

\* C6: every record validateImportedRecipes returns has a non-empty trimmed
\* name, prep_time and instructions, a meal of the four meal types, at least
\* one ingredient and a servings number; the records returned are those of
\* the raw records all of whose fields resolve, in input order.
C6_NoPartialRecord ==
    pc = "validated" =>
        /\ \A i \in 1..Len(validated) :
            /\ IsTrimmedNonEmpty(validated[i].name)
            /\ IsTrimmedNonEmpty(validated[i].prep_time)
            /\ IsTrimmedNonEmpty(validated[i].instructions)
            /\ validated[i].meal \in MealTypeSet
            /\ Len(validated[i].ingredients) > 0
            /\ validated[i].servings \in [n : Int, d : Nat]
        /\ LET resolving == SelectSeq(SourceCandidates, LAMBDA c : c \in DOMAIN ResolvedName)
           IN  /\ Len(validated) = Len(resolving)
               /\ \A i \in 1..Len(resolving) : validated[i].name = ResolvedName[resolving[i]]

\* three raw records of which the middle one is dropped and the other two are
\* kept in their order
C6_Witness ==
    /\ pc = "validated"
    /\ Len(SourceCandidates) = 3
    /\ SourceCandidates[2] \notin DOMAIN ResolvedName
    /\ Len(validated) = 2
    /\ validated[1].name = N_Pie
    /\ validated[2].name = N_Soup

\* C8: a top-level value that is neither an object with a recipes array nor
\* an array validates to no record; an array a validates as {recipes: a}.
C8_MalformedPayload ==
    pc = "validated" =>
        /\ (~HasRecipesArray(data) /\ data.t # "array") => validated = <<>>
        /\ data.t = "array" =>
            /\ payload = Obj(<< <<K_recipes, data>> >>)
            /\ validated = validateImportedRecipes(Obj(<< <<K_recipes, data>> >>))

\* an object whose recipes property is not an array, validated to nothing
C8_Witness ==
    /\ pc = "validated"
    /\ data = Obj(<< <<K_recipes, CandBase>> >>)
    /\ validated = <<>>

----------------------------------------------------------------------------
(* The recipe editor, the servings upgrade effect, export and import *)

\* interface RecipeDraft, without id: the draft of a new recipe
RecipeDraft(name, prepTime, meal, servingsText, ingredientsText, instructions) ==
    [name |-> name, prepTime |-> prepTime, meal |-> meal, servings |-> servingsText,
     ingredientsText |-> ingredientsText, instructions |-> instructions]

\* validateDraft: the message, or "null"
validateDraft(draft) ==
    LET servingsValue == parseFloat(draft.servings)
    IN  IF trim(draft.name) = <<>> THEN "Please provide a recipe name."
        ELSE IF trim(draft.servings) = <<>>
        THEN "Specify how many servings this recipe makes."
        ELSE IF ~isFinite(servingsValue) \/ ~isPositive(servingsValue)
        THEN "Servings must be a positive number."
        ELSE IF trim(draft.ingredientsText) = <<>> THEN "List at least one ingredient."
        ELSE IF trim(draft.instructions) = <<>> THEN "Include preparation instructions."
        ELSE "null"

\* String.prototype.split(/\r?\n/), from position i with the line cur open
RECURSIVE splitLinesFrom(_, _, _)
splitLinesFrom(s, i, cur) ==
    IF i > Len(s) THEN <<cur>>
    ELSE IF s[i] = "\r" /\ i + 1 <= Len(s) /\ s[i + 1] = "\n"
    THEN <<cur>> \o splitLinesFrom(s, i + 2, <<>>)
    ELSE IF s[i] = "\n"
    THEN <<cur>> \o splitLinesFrom(s, i + 1, <<>>)
    ELSE splitLinesFrom(s, i + 1, Append(cur, s[i]))

\* draftToInput: the fields of a Recipe other than id
draftToInput(draft) ==
    LET lines == splitLinesFrom(draft.ingredientsText, 1, <<>>)
    IN  [name |-> trim(draft.name),
         meal |-> draft.meal,
         prepTime |-> trim(draft.prepTime),
         servings |-> parseFloat(draft.servings),
         ingredients |-> nonEmpty([i \in 1..Len(lines) |-> trim(lines[i])]),
         instructions |-> trim(draft.instructions)]

\* handleCreateRecipe: { id: generateId('recipe'), ...input } appended
handleCreateRecipe(collection, id, input) ==
    Append(collection,
           Recipe(id, input.name, input.prepTime, input.ingredients, input.meal,
                  input.servings, input.instructions))

\* the effect with 0 where the code writes 1
upgradeServingsNullToZero(collection) ==
    [i \in 1..Len(collection) |->
        IF normalizeServings(Num(collection[i].servings)) = Null
        THEN [collection[i] EXCEPT !.servings = Rat(0, 1)]
        ELSE [collection[i] EXCEPT
                 !.servings = normalizeServings(Num(collection[i].servings)).v]]

\* the servings upgrade effect's recipes.map
upgradeServings(collection) ==
    [i \in 1..Len(collection) |->
        LET normalized == normalizeServings(Num(collection[i].servings))
        IN  IF normalized = Null THEN [collection[i] EXCEPT !.servings = Rat(1, 1)]
            ELSE IF normalized.v # collection[i].servings
            THEN [collection[i] EXCEPT !.servings = normalized.v]
            ELSE collection[i]]

\* the effect has a change to make (`mutated`); React runs it after the
\* render that follows a change of recipes, before the next event
EffectPending == Len(recipes) > 0 /\ upgradeServings(recipes) # recipes

\* JSON.stringify then JSON.parse of a number: a non-finite number is null
jsonNumber(x) == IF isFinite(x) THEN Num(x) ELSE Null

\* the payload of handleExportRecipes as the JSON file holds it
exportPayload(collection) ==
    Obj(<< <<K_recipes,
             Arr([i \in 1..Len(collection) |->
                   Obj(<< <<K_name, Str(collection[i].name)>>,
                          <<K_prep_time, Str(collection[i].prepTime)>>,
                          <<K_meal, Str(collection[i].meal)>>,
                          <<K_servings, jsonNumber(collection[i].servings)>>,
                          <<K_ingredients,
                            Arr([k \in 1..Len(collection[i].ingredients) |->
                                   Str(collection[i].ingredients[k])])>>,
                          <<K_instructions, Str(collection[i].instructions)>> >>)])>> >>)

\* handleImport's validated.map: the records with fresh identifiers
withIds(validatedRecipes, firstId) ==
    [i \in 1..Len(validatedRecipes) |->
        Recipe(firstId + i - 1,
               trim(validatedRecipes[i].name),
               trim(validatedRecipes[i].prep_time),
               [k \in 1..Len(validatedRecipes[i].ingredients) |->
                   trim(validatedRecipes[i].ingredients[k])],
               validatedRecipes[i].meal,
               validatedRecipes[i].servings,
               trim(validatedRecipes[i].instructions))]

----------------------------------------------------------------------------
(* The application: recipes are added in the editor, exported to a file,
   and the file is imported again. *)

MaxRecipes == 2
MaxIds == 5

\* what the form lets through to handleSubmit: the name and servings inputs
\* are `required`, the servings input has min="1"
DraftPool ==
    {RecipeDraft(<<"S","o","u","p">>, <<>>, LUNCH, <<"2">>, <<"2"," ","e","g","g","s","\n"," ","r","i","c","e"," ","\n">>, <<"M","i","x"," ">>),
     RecipeDraft(<<" ","S","o","u","p">>, <<"5"," ","m">>, DINNER, <<"1",".","2","3","4">>, <<"r","i","c","e",","," ","s","a","l","t">>, <<"B","o","i","l">>),
     RecipeDraft(<<"s","o","u","p">>, <<"5"," ","m"," ">>, SNACK, <<"2">>, <<"r","i","c","e">>, <<"M","i","x">>),
     RecipeDraft(<<"P","i","e">>, <<" ">>, BREAKFAST, <<"1",".","2","3","4">>, <<"f","l","o","u","r","\r","\n","e","g","g">>, <<"B","a","k","e">>),
     RecipeDraft(<<" ">>, <<"5"," ","m">>, LUNCH, <<"2">>, <<"r","i","c","e">>, <<"M","i","x">>),
     RecipeDraft(<<"P","i","e">>, <<"5"," ","m">>, LUNCH, <<"2">>, <<" ","\n">>, <<"M","i","x">>),
     RecipeDraft(<<"P","i","e">>, <<"5"," ","m">>, LUNCH, <<"2">>, <<"r","i","c","e">>, <<>>)}

InitApp ==
    /\ pc = "ready"
    /\ recipes = <<>>
    /\ nextId = 0
    /\ exported = <<>>
    /\ data = Idle /\ payload = Idle /\ validated = <<>>
    /\ IdleDedupe /\ IdleParse /\ IdleServings
    /\ IdlePlan /\ IdleMeal /\ IdleLookup
    /\ IdlePick /\ IdleIngredients /\ IdleHandler

\* handleSubmit for a new recipe: validateDraft, draftToInput,
\* handleCreateRecipe
SubmitDraft(draft) ==
    /\ ~EffectPending
    /\ Len(recipes) < MaxRecipes
    /\ nextId < MaxIds
    /\ validateDraft(draft) = "null"
    /\ recipes' = handleCreateRecipe(recipes, nextId + 1, draftToInput(draft))
    /\ nextId' = nextId + 1
    /\ pc' = "ready"
    /\ UNCHANGED <<exported, importVars, dedupeVars, parseVars, servingsVars,
                 planVars, mealVars, lookupVars,
                 pickVars, ingredientVars, handlerVars>>

\* handleSubmit for a draft validateDraft rejects: only the panel's message
\* changes
RejectDraft(draft) ==
    /\ ~EffectPending
    /\ validateDraft(draft) # "null"
    /\ pc' = "rejected"
    /\ UNCHANGED <<appVars, importVars, dedupeVars, parseVars, servingsVars,
                 planVars, mealVars, lookupVars,
                 pickVars, ingredientVars, handlerVars>>

\* the servings upgrade effect
ServingsUpgradeEffect ==
    /\ EffectPending
    /\ recipes' = upgradeServings(recipes)
    /\ UNCHANGED <<pc, nextId, exported, importVars, dedupeVars, parseVars, servingsVars,
                 planVars, mealVars, lookupVars,
                 pickVars, ingredientVars, handlerVars>>

\* handleExportRecipes: the file is written
ExportRecipes ==
    /\ ~EffectPending
    /\ Len(recipes) > 0
    /\ data' = exportPayload(recipes)
    /\ exported' = recipes
    /\ pc' = "exported"
    /\ UNCHANGED <<recipes, nextId, payload, validated, dedupeVars, parseVars, servingsVars,
                 planVars, mealVars, lookupVars,
                 pickVars, ingredientVars, handlerVars>>

\* handleImport of the exported file
ImportFile ==
    /\ ~EffectPending
    /\ data # Idle
    /\ \E coerced \in {coerceRecipePayload(data)} :
         \E valid \in {validateImportedRecipes(coerced)} :
           /\ nextId + Len(valid) <= MaxIds
           /\ payload' = coerced
           /\ validated' = valid
           /\ IF Len(valid) = 0
              THEN UNCHANGED <<recipes, nextId>>
              ELSE /\ recipes' = dedupeRecipes(recipes, withIds(valid, nextId + 1))
                   /\ nextId' = nextId + Len(valid)
    /\ pc' = "imported"
    /\ UNCHANGED <<data, exported, dedupeVars, parseVars, servingsVars,
                 planVars, mealVars, lookupVars,
                 pickVars, ingredientVars, handlerVars>>

NextApp ==
    \/ \E draft \in DraftPool : SubmitDraft(draft)
    \/ \E draft \in DraftPool : RejectDraft(draft)
    \/ ServingsUpgradeEffect
    \/ ExportRecipes
    \/ ImportFile

SpecApp == InitApp /\ [][NextApp]_vars

\* servings is a finite number greater than 0
ValidPositive(x) == x.d > 0 /\ x.n > 0

\* the validated record carries the fields of the recipe
SameFields(imported, recipe) ==
    /\ imported.name = recipe.name
    /\ imported.prep_time = recipe.prepTime
    /\ imported.meal = recipe.meal
    /\ imported.servings = recipe.servings
    /\ imported.ingredients = recipe.ingredients
    /\ imported.instructions = recipe.instructions

\* C5: after the exported file is imported, every exported recipe with
\* ingredients, instructions and valid positive servings has a validated
\* record with the same name, prep_time, meal, servings, ingredients and
\* instructions.
C5_RoundTrip ==
    pc = "imported" =>
        \A i \in 1..Len(exported) :
            (/\ Len(exported[i].ingredients) > 0
             /\ exported[i].instructions # <<>>
             /\ ValidPositive(exported[i].servings)) =>
                \E j \in 1..Len(validated) : SameFields(validated[j], exported[i])

----------------------------------------------------------------------------
(* dateRangeInclusive.  A Date is the local calendar day [y, m, d] it falls
   on (the code builds every Date at local midnight and reads it back with
   toDateInputValue, which undoes the time zone offset). *)

InvalidDate == [y |-> 0, m |-> 0, d |-> 0]

isLeapYear(y) == (y % 4 = 0 /\ y % 100 # 0) \/ y % 400 = 0

daysInMonth(y, m) ==
    IF m = 2 THEN (IF isLeapYear(y) THEN 29 ELSE 28)
    ELSE IF m \in {4, 6, 9, 11} THEN 30 ELSE 31

\* new Date(s + 'T00:00:00') for s of the form YYYY-MM-DD; Invalid Date for
\* any other string of the model.  (A day number past the end of its month
\* is read differently by different engines; no input of the model has one.)
newDate(s) ==
    LET fields(y, m, d) ==
            IF m \in 1..12 /\ d >= 1 /\ d <= daysInMonth(y, m)
            THEN [y |-> y, m |-> m, d |-> d]
            ELSE InvalidDate
    IN  IF /\ Len(s) = 10
           /\ s[5] = "-" /\ s[8] = "-"
           /\ \A i \in {1, 2, 3, 4, 6, 7, 9, 10} : isDigit(s[i])
        THEN fields(digitsValue(s, 1, 4), digitsValue(s, 6, 2), digitsValue(s, 9, 2))
        ELSE InvalidDate

\* Number.isNaN(date.getTime())
isInvalidDate(date) == date = InvalidDate

\* a <= b on valid Dates
dateLessEq(a, b) ==
    \/ a.y < b.y
    \/ a.y = b.y /\ a.m < b.m
    \/ a.y = b.y /\ a.m = b.m /\ a.d <= b.d

\* cursor.setDate(cursor.getDate() + 1)
nextDay(date) ==
    IF date.d < daysInMonth(date.y, date.m) THEN [date EXCEPT !.d = @ + 1]
    ELSE IF date.m < 12 THEN [date EXCEPT !.m = @ + 1, !.d = 1]
    ELSE [y |-> date.y + 1, m |-> 1, d |-> 1]

\* the decimal digits of n, padded with zeros to the given width
RECURSIVE padStart(_, _)
padStart(str, width) ==
    IF Len(str) >= width THEN str ELSE padStart(<<"0">> \o str, width)

\* toDateInputValue: YYYY-MM-DD of the local day
toDateInputValue(date) ==
    padStart(natToString(date.y), 4) \o <<"-">> \o padStart(natToString(date.m), 2)
        \o <<"-">> \o padStart(natToString(date.d), 2)

\* the while loop of dateRangeInclusive
RECURSIVE datesFrom(_, _)
datesFrom(cursor, endDate) ==
    IF dateLessEq(cursor, endDate)
    THEN <<toDateInputValue(cursor)>> \o datesFrom(nextDay(cursor), endDate)
    ELSE <<>>

\* an end before the start read as the range from the end to the start
dateRangeInclusiveSwapped(start, end) ==
    LET between(startDate, endDate) ==
            IF isInvalidDate(startDate) \/ isInvalidDate(endDate) THEN <<>>
            ELSE IF ~dateLessEq(startDate, endDate) THEN datesFrom(endDate, startDate)
            ELSE datesFrom(startDate, endDate)
    IN  IF start = <<>> \/ end = <<>> THEN <<>>
        ELSE between(newDate(start), newDate(end))

dateRangeInclusive(start, end) ==
    LET between(startDate, endDate) ==
            IF isInvalidDate(startDate) \/ isInvalidDate(endDate) THEN <<>>
            ELSE IF ~dateLessEq(startDate, endDate) THEN <<>>
            ELSE datesFrom(startDate, endDate)
    IN  IF start = <<>> \/ end = <<>> THEN <<>>
        ELSE between(newDate(start), newDate(end))

----------------------------------------------------------------------------
(* toTitleCase, localeCompare and Array.prototype.sort *)

\* stands for the character U+00E8 (e with grave accent)
E_GRAVE == "e-grave"

LowerToUpper ==
    [c \in {Lower[i] : i \in 1..26} |-> Upper[CHOOSE i \in 1..26 : Lower[i] = c]]

\* String.prototype.toUpperCase on one character of the model
toUpperCaseChar(c) == IF c \in DOMAIN LowerToUpper THEN LowerToUpper[c] ELSE c

\* \w
isWordChar(c) == c \in DOMAIN LowerToUpper \/ c \in DOMAIN UpperToLower \/ isDigit(c) \/ c = "_"

\* value.replace(/\b\w/g, (char) => char.toUpperCase())
toTitleCase(value) ==
    [i \in 1..Len(value) |->
        IF isWordChar(value[i]) /\ (i = 1 \/ ~isWordChar(value[i - 1]))
        THEN toUpperCaseChar(value[i])
        ELSE value[i]]

\* the position of a letter in the alphabet, whatever its case
letterIndex(c) ==
    CHOOSE i \in 1..26 : Lower[i] = toLowerCaseChar(c)

\* the punctuation of the model in collation order
CollationPunctuation == <<"_", "-", ",", ";", ":", ".", "(", ")", "*", "/">>

\* the primary collation weight of a character: white space, then
\* punctuation, then digits, then letters without regard to case or accent
primaryWeight(c) ==
    IF c = E_GRAVE THEN 200 + 5
    ELSE IF c \in DOMAIN UpperToLower \/ c \in DOMAIN LowerToUpper THEN 200 + letterIndex(c)
    ELSE IF isDigit(c) THEN 100 + digitValue(c)
    ELSE IF \E i \in 1..Len(CollationPunctuation) : CollationPunctuation[i] = c
    THEN 10 + (CHOOSE i \in 1..Len(CollationPunctuation) : CollationPunctuation[i] = c)
    ELSE IF c = " " THEN 2
    ELSE 1

\* the secondary weight: the accent
secondaryWeight(c) == IF c = E_GRAVE THEN 1 ELSE 0

\* the tertiary weight: lower case before upper case
tertiaryWeight(c) == IF c \in DOMAIN UpperToLower THEN 1 ELSE 0

\* the comparison of two sequences of weights from position i on: -1, 0 or 1
RECURSIVE compareFrom(_, _, _)
compareFrom(a, b, i) ==
    IF i > Len(a) /\ i > Len(b) THEN 0
    ELSE IF i > Len(a) THEN -1
    ELSE IF i > Len(b) THEN 1
    ELSE IF a[i] < b[i] THEN -1
    ELSE IF a[i] > b[i] THEN 1
    ELSE compareFrom(a, b, i + 1)

\* String.prototype.localeCompare with the default collation: the primary
\* weights of the whole strings decide first, then the accents, then the case
localeCompare(a, b) ==
    LET byCase(c) ==
            IF c # 0 THEN c
            ELSE compareFrom([i \in 1..Len(a) |-> tertiaryWeight(a[i])],
                             [i \in 1..Len(b) |-> tertiaryWeight(b[i])], 1)
        byAccent(c) ==
            IF c # 0 THEN c
            ELSE byCase(compareFrom([i \in 1..Len(a) |-> secondaryWeight(a[i])],
                                    [i \in 1..Len(b) |-> secondaryWeight(b[i])], 1))
    IN  byAccent(compareFrom([i \in 1..Len(a) |-> primaryWeight(a[i])],
                             [i \in 1..Len(b) |-> primaryWeight(b[i])], 1))

\* Array.prototype.sort (stable) by keys of which compareKeys[i][j] is the
\* comparison of the i-th with the j-th: the permutation of 1..n it applies
sortOrder(n, compareKeys) ==
    LET rank == [i \in 1..n |->
                    1 + Cardinality({j \in 1..n :
                                        \/ compareKeys[j][i] < 0
                                        \/ compareKeys[j][i] = 0 /\ j < i})]
    IN  [k \in 1..n |-> CHOOSE i \in 1..n : rank[i] = k]

\* the sort left out
sortByLocaleCompareNone(items, keys) == items

\* items.sort((a, b) => keyOf(a).localeCompare(keyOf(b))), given the keys
sortByLocaleCompare(items, keys) ==
    LET order == sortOrder(Len(items),
                           [i \in 1..Len(items) |->
                               [j \in 1..Len(items) |-> localeCompare(keys[i], keys[j])]])
    IN  [k \in 1..Len(items) |-> items[order[k]]]

----------------------------------------------------------------------------
(* buildPlanOutputs.  A Map is the sequence of its entries in insertion
   order; a slot of a DayPlan is Null or Str(recipe id). *)

\* !recipeId is false
slotAssigned(recipeId) == recipeId.t = "string" /\ recipeId.v # ""

recipeMapGetFirst(collection, recipeId) ==
    IF \E i \in 1..Len(collection) : collection[i].id = recipeId
    THEN collection[CHOOSE i \in 1..Len(collection) : collection[i].id = recipeId]
    ELSE collection[1]

\* recipeMap.get(recipeId): of the recipes with that id the Map keeps the
\* last; Undefined without one
recipeMapGet(collection, recipeId) ==
    LET hits == {i \in 1..Len(collection) : collection[i].id = recipeId}
    IN  IF hits = {} THEN Undefined
        ELSE collection[CHOOSE i \in hits : \A j \in hits : j <= i]

\* usedRecipes.set(recipe.id, recipe)
usedRecipesSet(usedRecipes, recipe) ==
    IF \E i \in 1..Len(usedRecipes) : usedRecipes[i].id = recipe.id
    THEN [i \in 1..Len(usedRecipes) |->
            IF usedRecipes[i].id = recipe.id THEN recipe ELSE usedRecipes[i]]
    ELSE Append(usedRecipes, recipe)

EACH == <<"e","a","c","h">>

\* the key without the unit
shoppingKeyItemOnly(detail) == detail.item

\* `${parsed.item}__${parsed.unit ?? 'each'}`
shoppingKey(detail) ==
    detail.item \o <<"_", "_">> \o (IF detail.unit.t = "undefined" THEN EACH ELSE detail.unit.v)

quantityOrZero(detail) ==
    IF detail.quantity.t = "null" THEN Rat(0, 1) ELSE detail.quantity.v

\* parsed.quantity ?? 1
quantityOrOne(detail) ==
    IF detail.quantity.t = "null" THEN Rat(1, 1) ELSE detail.quantity.v

\* a + b on finite numbers
plus(a, b) == Rat(a.n * b.d + b.n * a.d, a.d * b.d)

\* shoppingMap.get(key): the position of the entry, 0 without one
shoppingMapIndex(shoppingMap, key) ==
    IF \E i \in 1..Len(shoppingMap) : shoppingMap[i].key = key
    THEN CHOOSE i \in 1..Len(shoppingMap) : shoppingMap[i].key = key
    ELSE 0

\* the accumulation without the rounding of the sum
accumulateUnrounded(shoppingMap, detail, quantity, key, at) ==
    IF at # 0
    THEN [shoppingMap EXCEPT ![at].value.quantity = plus(@, quantity)]
    ELSE Append(shoppingMap,
                [key |-> key,
                 value |-> [ingredient |-> toTitleCase(detail.item),
                            quantity |-> toFixed2(quantity),
                            unit |-> detail.unit]])

\* the body of recipe.ingredients.forEach after the key is looked up
accumulate(shoppingMap, detail, quantity, key, at) ==
    IF at # 0
    THEN [shoppingMap EXCEPT ![at].value.quantity = toFixed2(plus(@, quantity))]
    ELSE Append(shoppingMap,
                [key |-> key,
                 value |-> [ingredient |-> toTitleCase(detail.item),
                            quantity |-> toFixed2(quantity),
                            unit |-> detail.unit]])

\* recipe.ingredients.forEach, from the k-th ingredient on
RECURSIVE forEachIngredient(_, _, _)
forEachIngredient(shoppingMap, ingredients, k) ==
    LET withKey(detail, key) ==
            accumulate(shoppingMap, detail, quantityOrOne(detail), key,
                       shoppingMapIndex(shoppingMap, key))
        withParsed(detail) == withKey(detail, shoppingKey(detail))
    IN  IF k > Len(ingredients) THEN shoppingMap
        ELSE forEachIngredient(withParsed(parseIngredientDetails(ingredients[k])),
                               ingredients, k + 1)

\* MEAL_TYPES.indexOf(meal)
mealIndex(meal) == CHOOSE i \in 1..Len(MEAL_TYPES) : MEAL_TYPES[i] = meal

\* mealsForDay.sort((a, b) => MEAL_TYPES.indexOf(a.meal) - MEAL_TYPES.indexOf(b.meal))
sortMeals(mealsForDay) ==
    LET order == sortOrder(Len(mealsForDay),
                           [i \in 1..Len(mealsForDay) |->
                               [j \in 1..Len(mealsForDay) |->
                                   mealIndex(mealsForDay[i].meal)
                                       - mealIndex(mealsForDay[j].meal)]])
    IN  [k \in 1..Len(mealsForDay) |-> mealsForDay[order[k]]]

\* recipeMap.get that resolves a missing id to the first recipe
\* MEAL_TYPES.forEach of one day, from the m-th meal type on; acc holds
\* mealsForDay, plannedMeals, usedRecipes, shoppingMap and itinerary
RECURSIVE forEachMeal(_, _, _, _)
forEachMeal(acc, day, collection, m) ==
    LET withRecipe(recipe) ==
            IF recipe = Undefined THEN acc
            ELSE [acc EXCEPT
                    !.mealsForDay = Append(@, [meal |-> MEAL_TYPES[m], recipe |-> recipe]),
                    !.plannedMeals = @ + 1,
                    !.usedRecipes = usedRecipesSet(@, recipe),
                    !.shoppingMap = forEachIngredient(@, recipe.ingredients, 1)]
        withSlot(recipeId) ==
            IF ~slotAssigned(recipeId) THEN acc
            ELSE withRecipe(recipeMapGet(collection, recipeId.v))
    IN  IF m > Len(MEAL_TYPES) THEN acc
        ELSE forEachMeal(withSlot(IF MEAL_TYPES[m] \in DOMAIN day
                                  THEN day[MEAL_TYPES[m]] ELSE Undefined),
                         day, collection, m + 1)

\* dates.forEach over the dates that remain
RECURSIVE forEachDate(_, _, _, _)
forEachDate(acc, dates, plan, collection) ==
    LET close(after) ==
            IF after.mealsForDay # <<>>
            THEN [after EXCEPT !.itinerary =
                    Append(@, [date |-> dates[1], meals |-> sortMeals(after.mealsForDay)])]
            ELSE after
        visit(date) ==
            IF date \notin DOMAIN plan THEN acc
            ELSE close(forEachMeal([acc EXCEPT !.mealsForDay = <<>>],
                                   plan[date], collection, 1))
    IN  IF dates = <<>> THEN acc
        ELSE forEachDate(visit(dates[1]), Tail(dates), plan, collection)

\* buildPlanOutputs(mealPlan, recipes, start, end): Null, or the shopping
\* list, the itinerary, the recipes used and the number of planned meals
buildPlanOutputs(plan, collection, start, end) ==
    LET rows(shoppingMap) == [i \in 1..Len(shoppingMap) |-> shoppingMap[i].value]
        sorted(list) ==
            sortByLocaleCompare(list, [i \in 1..Len(list) |-> list[i].ingredient])
        finish(acc) ==
            IF acc.itinerary = <<>> THEN Null
            ELSE [shoppingList |-> sorted(rows(acc.shoppingMap)),
                  itinerary |-> acc.itinerary,
                  recipes |->
                      sortByLocaleCompare(acc.usedRecipes,
                          [i \in 1..Len(acc.usedRecipes) |-> acc.usedRecipes[i].name]),
                  plannedMeals |-> acc.plannedMeals]
        run(dates) ==
            IF dates = <<>> THEN Null
            ELSE finish(forEachDate([mealsForDay |-> <<>>, plannedMeals |-> 0,
                                     usedRecipes |-> <<>>, shoppingMap |-> <<>>,
                                     itinerary |-> <<>>],
                                    dates, plan, collection))
    IN  run(dateRangeInclusive(start, end))

----------------------------------------------------------------------------
(* The plan harness: buildPlanOutputs applied to a meal plan over two days,
   the recipe collection and a date range. *)

\* the number of assigned slots of the meal plan
MaxAssigned == 2

D_FEB28 == <<"2","0","2","4","-","0","2","-","2","8">>
D_FEB29 == <<"2","0","2","4","-","0","2","-","2","9">>
D_MAR01 == <<"2","0","2","4","-","0","3","-","0","1">>

\* the dates of the model in ascending order
Calendar == <<D_FEB28, D_FEB29, D_MAR01>>

\* the recipe collection
RecipeBook ==
    << Recipe("recipe-a", <<"O","m","e","l","e","t","t","e">>, <<"5"," ","m">>,
              << <<"2"," ","e","g","g","s">>,
                 <<"1","/","3"," ","c","u","p"," ","M","i","l","k">>,
                 <<"2","/","0"," ","f","l","o","u","r">>,
                 <<"c","r","e","s","s">> >>,
              BREAKFAST, Rat(2, 1), <<"M","i","x">>),
       Recipe("recipe-b", <<"c","a","k","e">>, <<"1"," ","h">>,
              << <<"3"," ","E","g","g","s">>,
                 <<"1","/","3"," ","c","u","p"," ","m","i","l","k">>,
                 <<"1","/","3"," ","C","U","P"," ","m","i","l","k">>,
                 <<"1"," ","c","u","p"," ","e","g","g","s">>,
                 <<"c","r",E_GRAVE,"m","e">> >>,
              SNACK, Rat(4, 1), <<"B","a","k","e">>) >>

\* the recipe ids a slot may hold; no recipe of the collection has recipe-x
SlotIds == {"recipe-a", "recipe-b", "recipe-x"}

\* the slots of the two planned days
PlanSlots == {D_FEB29, D_MAR01} \X MealTypeSet

\* the meal plan with the given slots assigned; a day without an assigned
\* slot has no entry (handleAssignMeal deletes it)
planOf(assigned) ==
    [date \in {slot[1] : slot \in DOMAIN assigned} |->
        [meal \in MealTypeSet |->
            IF <<date, meal>> \in DOMAIN assigned
            THEN Str(assigned[<<date, meal>>])
            ELSE Null]]

\* [start, end] as the date inputs or a caller hold them
RangePool ==
    {<<D_FEB28, D_MAR01>>, <<D_FEB29, D_MAR01>>, <<D_MAR01, D_MAR01>>,
     <<D_MAR01, D_FEB29>>, <<<<>>, D_MAR01>>, <<<<"s","o","o","n">>, D_MAR01>>}

InitPlan ==
    /\ pc = "start"
    /\ recipes = RecipeBook
    /\ nextId = 0
    /\ exported = Idle
    /\ \E slots \in {S \in SUBSET PlanSlots : Cardinality(S) <= MaxAssigned} :
         \E assigned \in [slots -> SlotIds] : mealPlan = planOf(assigned)
    /\ \E range \in RangePool : rangeStart = range[1] /\ rangeEnd = range[2]
    /\ outputs = Idle
    /\ IdleDedupe /\ IdleParse /\ IdleServings /\ IdleImport
    /\ IdleMeal /\ IdleLookup
    /\ IdlePick /\ IdleIngredients /\ IdleHandler

BuildPlanOutputs ==
    /\ pc = "start"
    /\ outputs' = buildPlanOutputs(mealPlan, recipes, rangeStart, rangeEnd)
    /\ pc' = "built"
    /\ UNCHANGED <<mealPlan, rangeStart, rangeEnd, dedupeVars, parseVars, servingsVars,
                   importVars, appVars, mealVars, lookupVars,
                 pickVars, ingredientVars, handlerVars>>

NextPlan == BuildPlanOutputs

SpecPlan == InitPlan /\ [][NextPlan]_vars

----------------------------------------------------------------------------
(* What buildPlanOutputs has to aggregate, stated from the meal plan, the
   recipe collection and the calendar rather than from its loops. *)

\* the place of a date of the model in the calendar
CalendarIndex(date) == CHOOSE i \in 1..Len(Calendar) : Calendar[i] = date

OnCalendar(date) == \E i \in 1..Len(Calendar) : Calendar[i] = date

\* the date lies in the inclusive range [rangeStart, rangeEnd]
InRange(date) ==
    /\ OnCalendar(rangeStart) /\ OnCalendar(rangeEnd)
    /\ CalendarIndex(rangeStart) <= CalendarIndex(date)
    /\ CalendarIndex(date) <= CalendarIndex(rangeEnd)

\* the slot holds the id of a recipe of the collection
Resolves(slot) ==
    /\ slot.t = "string"
    /\ \E i \in 1..Len(recipes) : recipes[i].id = slot.v

\* every slot of the calendar: dates ascending, meals in MEAL_TYPES order
AllSlots ==
    [k \in 1..(Len(Calendar) * Len(MEAL_TYPES)) |->
        [date |-> Calendar[((k - 1) \div Len(MEAL_TYPES)) + 1],
         meal |-> MEAL_TYPES[((k - 1) % Len(MEAL_TYPES)) + 1]]]

Planned(slot) == InRange(slot.date) /\ slot.date \in DOMAIN mealPlan

\* an assigned slot of the range whose recipe exists
Visited(slot) == Planned(slot) /\ Resolves(mealPlan[slot.date][slot.meal])

\* an assigned slot of the range whose recipe does not exist
Stale(slot) ==
    /\ Planned(slot)
    /\ mealPlan[slot.date][slot.meal].t = "string"
    /\ ~Resolves(mealPlan[slot.date][slot.meal])

VisitedSlots == SelectSeq(AllSlots, Visited)

RecipeAt(slot) ==
    recipes[CHOOSE i \in 1..Len(recipes) : recipes[i].id = mealPlan[slot.date][slot.meal].v]

\* the ingredient lines of the visited slots, in visiting order
RECURSIVE LinesOf(_)
LinesOf(slots) ==
    IF slots = <<>> THEN <<>>
    ELSE RecipeAt(Head(slots)).ingredients \o LinesOf(Tail(slots))

ContributingLines == LinesOf(VisitedSlots)

\* every ingredient line of the recipe collection as parseIngredientDetails
\* reads it
ParsedLine ==
    [text \in UNION {{RecipeBook[r].ingredients[l] : l \in 1..Len(RecipeBook[r].ingredients)} :
                         r \in 1..Len(RecipeBook)} |->
        parseIngredientDetails(text)]

\* the contributing lines as parseIngredientDetails reads them
Contributions ==
    [c \in 1..Len(ContributingLines) |-> ParsedLine[ContributingLines[c]]]

SameUnit(a, b) == a.t = b.t /\ (a.t = "string" => a.v = b.v)

\* the parsed line belongs to the row
SameRow(detail, row) ==
    row.ingredient = toTitleCase(detail.item) /\ SameUnit(row.unit, detail.unit)

Built == pc = "built" /\ outputs # Null

\* the first token is digits/digits with a zero denominator
ZeroDenominator(text) ==
    /\ IsFractionToken(splitWhitespace(text)[1])
    /\ DenominatorOf(splitWhitespace(text)[1]) = 0

\* C12: a line whose first token is digits/digits with a zero denominator
\* parses to quantity null and to the rest of the line as item, and a row
\* fed by such lines only counts one for each of them.
C12_ZeroDenominator ==
    Built =>
        LET holds(lines, details, list) ==
                \A c \in 1..Len(lines) :
                    ZeroDenominator(lines[c]) =>
                        /\ details[c].quantity = Null
                        /\ details[c].item =
                               toLowerCase(joinSpace(Tail(splitWhitespace(lines[c]))))
                        /\ \A i \in 1..Len(list) :
                               (/\ SameRow(details[c], list[i])
                                /\ \A d \in 1..Len(lines) :
                                       SameRow(details[d], list[i]) => ZeroDenominator(lines[d]))
                               => list[i].quantity =
                                      Rat(Cardinality({d \in 1..Len(lines) :
                                                          SameRow(details[d], list[i])}), 1)
        IN  holds(ContributingLines, Contributions, outputs.shoppingList)

C12_Witness ==
    /\ Built
    /\ \E c \in 1..Len(ContributingLines) : ContributingLines[c] = <<"2","/","0"," ","f","l","o","u","r">>
    /\ \E i \in 1..Len(outputs.shoppingList) :
          /\ outputs.shoppingList[i].ingredient = <<"F","l","o","u","r">>
          /\ outputs.shoppingList[i].quantity = Rat(2, 1)

\* C14: no two rows of the shopping list have the same item and the same
\* unit (or both none), every contributing line has its row, and every row
\* has a contributing line.
C14_OneRowPerKey ==
    Built =>
        LET holds(details, list) ==
                /\ \A i, j \in 1..Len(list) :
                       i # j => ~(/\ list[i].ingredient = list[j].ingredient
                                  /\ SameUnit(list[i].unit, list[j].unit))
                /\ \A c \in 1..Len(details) : \E i \in 1..Len(list) :
                       SameRow(details[c], list[i])
                /\ \A i \in 1..Len(list) : \E c \in 1..Len(details) :
                       SameRow(details[c], list[i])
        IN  holds(Contributions, outputs.shoppingList)

C14_Witness ==
    /\ Built
    /\ \E i, j \in 1..Len(outputs.shoppingList) :
          /\ outputs.shoppingList[i].ingredient = <<"E","g","g","s">>
          /\ outputs.shoppingList[i].unit = Undefined
          /\ outputs.shoppingList[i].quantity = Rat(5, 1)
          /\ outputs.shoppingList[j].ingredient = <<"E","g","g","s">>
          /\ outputs.shoppingList[j].unit = Str(<<"c","u","p">>)
          /\ outputs.shoppingList[j].quantity = Rat(1, 1)

\* the nearest multiple of 1/100 of a non-negative number
RoundHundredths(x) == Rat((200 * x.n + x.d) \div (2 * x.d), 100)

\* the quantities folded from the left, rounded after each addition
RECURSIVE FoldRounded(_, _)
FoldRounded(sum, quantities) ==
    IF quantities = <<>> THEN sum
    ELSE FoldRounded(RoundHundredths(plus(sum, Head(quantities))), Tail(quantities))

\* the exact sum of the quantities
RECURSIVE ExactSum(_)
ExactSum(quantities) ==
    IF quantities = <<>> THEN Rat(0, 1)
    ELSE plus(Head(quantities), ExactSum(Tail(quantities)))

\* the quantities (1 for null) the parsed lines contribute to the row, in
\* visiting order
QuantitiesOf(details, row) ==
    LET quantities(mine) ==
            [c \in 1..Len(mine) |->
                IF mine[c].quantity = Null THEN Rat(1, 1) ELSE mine[c].quantity.v]
    IN  quantities(SelectSeq(details, LAMBDA detail : SameRow(detail, row)))

\* C15: the quantity of every row is the first contributed quantity rounded
\* to 2 decimals, then each further one added and the sum rounded again, in
\* visiting order, with 1 for a null quantity.
C15_StepwiseRounding ==
    Built =>
        LET fold(quantities) ==
                FoldRounded(RoundHundredths(Head(quantities)), Tail(quantities))
            holds(details, list) ==
                \A i \in 1..Len(list) :
                    list[i].quantity = fold(QuantitiesOf(details, list[i]))
        IN  holds(Contributions, outputs.shoppingList)

C15_Witness ==
    /\ Built
    /\ \E i \in 1..Len(outputs.shoppingList) :
          /\ outputs.shoppingList[i].ingredient = <<"M","i","l","k">>
          /\ Len(QuantitiesOf(Contributions, outputs.shoppingList[i])) = 3
          /\ outputs.shoppingList[i].quantity = Rat(99, 100)
          /\ RoundHundredths(ExactSum(QuantitiesOf(Contributions, outputs.shoppingList[i])))
                 = Rat(1, 1)

\* the meal plan with the stale slots unassigned
ClearedPlan ==
    [date \in DOMAIN mealPlan |->
        [meal \in MealTypeSet |->
            IF Resolves(mealPlan[date][meal]) THEN mealPlan[date][meal] ELSE Null]]

\* C16: the outputs are those of the meal plan with the stale slots
\* unassigned; plannedMeals counts the resolvable slots of the range and
\* every recipe of the itinerary and of the recipes list is in the collection.
C16_StaleSkipped ==
    pc = "built" =>
        /\ outputs = buildPlanOutputs(ClearedPlan, recipes, rangeStart, rangeEnd)
        /\ outputs # Null =>
              /\ outputs.plannedMeals = Len(VisitedSlots)
              /\ \A d \in 1..Len(outputs.itinerary) :
                     \A m \in 1..Len(outputs.itinerary[d].meals) :
                         \E i \in 1..Len(recipes) :
                             recipes[i] = outputs.itinerary[d].meals[m].recipe
              /\ \A r \in 1..Len(outputs.recipes) :
                     \E i \in 1..Len(recipes) : recipes[i] = outputs.recipes[r]

C16_Witness ==
    /\ Built
    /\ \E k \in 1..Len(AllSlots) : Stale(AllSlots[k])
    /\ outputs.plannedMeals = 1
    /\ Len(outputs.recipes) = 1

\* C17: there is no output exactly when no assigned slot of the inclusive
\* range resolves to a recipe of the collection; an empty or unreadable
\* start, and an end before the start, make the range empty.
C17_NullIffNothingResolvable ==
    pc = "built" => (outputs = Null <=> VisitedSlots = <<>>)

C17_Witness ==
    /\ pc = "built"
    /\ outputs = Null
    /\ rangeStart = D_MAR01 /\ rangeEnd = D_FEB29
    /\ \E date \in DOMAIN mealPlan : \E meal \in MealTypeSet :
          Resolves(mealPlan[date][meal])

\* the UTF-16 code unit of a character of the model
codeUnit(c) ==
    IF c = E_GRAVE THEN 232
    ELSE IF c \in DOMAIN UpperToLower THEN 64 + letterIndex(c)
    ELSE IF c \in DOMAIN LowerToUpper THEN 96 + letterIndex(c)
    ELSE IF isDigit(c) THEN 48 + digitValue(c)
    ELSE IF c = "_" THEN 95
    ELSE IF c = "/" THEN 47
    ELSE IF c = "-" THEN 45
    ELSE 32

\* a <= b in the order of the code units
CodeUnitLessEq(a, b) ==
    compareFrom([i \in 1..Len(a) |-> codeUnit(a[i])],
                [i \in 1..Len(b) |-> codeUnit(b[i])], 1) <= 0

\* C18 as stated: the rows ascend in the case-sensitive order of the code
\* units of the title-cased ingredient.
C18_CodeUnitSorted ==
    Built =>
        \A i, j \in 1..Len(outputs.shoppingList) :
            i < j => CodeUnitLessEq(outputs.shoppingList[i].ingredient,
                                    outputs.shoppingList[j].ingredient)

\* C18, amended: the rows ascend in the order localeCompare gives the
\* title-cased ingredients (the collation of the locale: letters first,
\* accent and case only between otherwise equal strings).
C18_LocaleSorted ==
    Built =>
        \A i, j \in 1..Len(outputs.shoppingList) :
            i < j => localeCompare(outputs.shoppingList[i].ingredient,
                                   outputs.shoppingList[j].ingredient) <= 0

C18_Witness ==
    /\ Built
    /\ \E i \in 1..(Len(outputs.shoppingList) - 1) :
          /\ outputs.shoppingList[i].ingredient = <<"C","r",E_GRAVE,"M","e">>
          /\ outputs.shoppingList[i + 1].ingredient = <<"C","r","e","s","s">>

----------------------------------------------------------------------------
(* The meal type harness: normalizeMealTypeField applied to the text of an
   imported meal field. *)

\* the number of words of the meal text
MaxWords == 2

\* the words a meal text is written from
WordPool ==
    {<<"B","r","e","a","k","f","a","s","t">>, <<"s","n","a","c","k">>, <<"d","e","s","s","e","r","t">>,
     <<"s","w","e","e","t">>, <<"T","r","e","a","t">>, <<"l","u","n","c","h">>,
     <<"D","i","n","n","e","r">>, <<"s","u","p","p","e","r">>, <<"b","r","u","n","c","h">>, <<" ">>}

\* the words written one after the other
RECURSIVE writeWords(_)
writeWords(words) ==
    IF words = <<>> THEN <<>> ELSE Head(words) \o writeWords(Tail(words))

InitMeal ==
    /\ pc = "start"
    /\ \/ mealRaw = Null
       \/ \E words \in UNION {[1..n -> WordPool] : n \in 0..MaxWords} :
             mealRaw = Str(writeWords(words))
    /\ mealType = Idle
    /\ IdleDedupe /\ IdleParse /\ IdleServings /\ IdleImport /\ IdleApp
    /\ IdlePlan /\ IdleLookup
    /\ IdlePick /\ IdleIngredients /\ IdleHandler

NormalizeMealTypeField ==
    /\ pc = "start"
    /\ mealType' = normalizeMealTypeField(mealRaw)
    /\ pc' = "classified"
    /\ UNCHANGED <<mealRaw, dedupeVars, parseVars, servingsVars, importVars, appVars,
                   planVars, lookupVars,
                 pickVars, ingredientVars, handlerVars>>

NextMeal == NormalizeMealTypeField

SpecMeal == InitMeal /\ [][NextMeal]_vars

\* the rules in their order of precedence: a text matches a rule when it
\* contains one of the first words and none of the second
MealRules ==
    << [any |-> {BREAKFAST}, none |-> {}, meal |-> BREAKFAST],
       [any |-> {SNACK}, none |-> {}, meal |-> SNACK],
       [any |-> {W_dessert, W_sweet, W_treat}, none |-> {}, meal |-> SNACK],
       [any |-> {LUNCH}, none |-> {DINNER}, meal |-> LUNCH],
       [any |-> {DINNER, W_supper}, none |-> {}, meal |-> DINNER] >>

Contains(text, word) ==
    \E i \in 1..Len(text) :
        /\ i + Len(word) - 1 <= Len(text)
        /\ \A k \in 1..Len(word) : text[i + k - 1] = word[k]

MatchesRule(text, rule) ==
    /\ \E word \in rule.any : Contains(text, word)
    /\ \A word \in rule.none : ~Contains(text, word)

\* the meal of the first rule the trimmed lower-cased text matches
FirstMatch(text) ==
    IF \A r \in 1..Len(MealRules) : ~MatchesRule(text, MealRules[r]) THEN Null
    ELSE Str(MealRules[CHOOSE r \in 1..Len(MealRules) :
                          /\ MatchesRule(text, MealRules[r])
                          /\ \A q \in 1..(r - 1) : ~MatchesRule(text, MealRules[q])].meal)

\* C19: the meal type is that of the first rule, in the fixed precedence,
\* that the trimmed lower-cased text matches; a text with lunch and dinner
\* and no word of an earlier rule is dinner; null and blank text give null.
C19_Precedence ==
    pc = "classified" =>
        /\ mealRaw = Null => mealType = Null
        /\ mealRaw # Null =>
              LET holds(value) ==
                      /\ mealType = FirstMatch(value)
                      /\ value = <<>> => mealType = Null
                      /\ (/\ Contains(value, LUNCH) /\ Contains(value, DINNER)
                          /\ \A r \in 1..3 : ~MatchesRule(value, MealRules[r]))
                         => mealType = Str(DINNER)
              IN  holds(toLowerCase(trim(mealRaw.v)))

C19_Witness ==
    /\ pc = "classified"
    /\ mealRaw = Str(<<"l","u","n","c","h","D","i","n","n","e","r">>)
    /\ mealType = Str(DINNER)

----------------------------------------------------------------------------
(* The field lookup harness: createFlexibleFieldLookup applied to a raw
   record, given as its entries in Object.entries order. *)

\* the number of keys of the raw record
MaxKeys == 2

\* the keys of the raw record
KeyPool == {<<>>, <<"-">>, K_name, <<"P","r","e","p","_","T","i","m","e">>, K_prep_space_time}

\* the values of the raw record
FieldValuePool == {Str(<<"1","0"," ","m","i","n">>), Str(<<>>), Num(Rat(5, 1))}

InitLookup ==
    /\ pc = "start"
    /\ \E n \in 0..MaxKeys :
         \E keys \in {ks \in [1..n -> KeyPool] : \A i, j \in 1..n : i # j => ks[i] # ks[j]} :
            \E values \in [1..n -> FieldValuePool] :
               fieldSource = Obj([i \in 1..n |-> <<keys[i], values[i]>>])
    /\ fieldLookup = Idle
    /\ IdleDedupe /\ IdleParse /\ IdleServings /\ IdleImport /\ IdleApp
    /\ IdlePlan /\ IdleMeal
    /\ IdlePick /\ IdleIngredients /\ IdleHandler

CreateFlexibleFieldLookup ==
    /\ pc = "start"
    /\ fieldLookup' = createFlexibleFieldLookup(fieldSource)
    /\ pc' = "collapsed"
    /\ UNCHANGED <<fieldSource, dedupeVars, parseVars, servingsVars, importVars, appVars,
                   planVars, mealVars,
                 pickVars, ingredientVars, handlerVars>>

NextLookup == CreateFlexibleFieldLookup

SpecLookup == InitLookup /\ [][NextLookup]_vars

\* the key lower-cased, without spaces, underscores and hyphens
NormalForm(key) ==
    SelectSeq(toLowerCase(key), LAMBDA c : c \notin {" ", "_", "-"})

\* the lookup maps the normal forms of the raw keys at the given places,
\* each to the value of the first of those places with that normal form
FirstWins(entries, places, lookup) ==
    /\ DOMAIN lookup = {NormalForm(entries[i][1]) : i \in places}
    /\ \A i \in places :
           (\A j \in places : j < i => NormalForm(entries[j][1]) # NormalForm(entries[i][1]))
               => lookup[NormalForm(entries[i][1])] = entries[i][2]

\* C20 as stated: every normalized key is mapped to the value of the first
\* raw key, in iteration order, that normalizes to it.
C20_FirstRawKeyWins ==
    pc = "collapsed" =>
        FirstWins(fieldSource.v, 1..Len(fieldSource.v), fieldLookup)

\* C20, amended: the empty raw key is skipped; every normalized key is
\* mapped to the value of the first non-empty raw key, in iteration order,
\* that normalizes to it, whatever that value and those of later keys are.
C20_FirstNonEmptyRawKeyWins ==
    pc = "collapsed" =>
        FirstWins(fieldSource.v,
                  {i \in 1..Len(fieldSource.v) : fieldSource.v[i][1] # <<>>},
                  fieldLookup)

C20_Witness ==
    /\ pc = "collapsed"
    /\ fieldSource = Obj(<< <<<<"P","r","e","p","_","T","i","m","e">>, Str(<<>>)>>,
                           <<K_prep_space_time, Str(<<"1","0"," ","m","i","n">>)>> >>)
    /\ fieldLookup[K_preptime] = Str(<<>>)

----------------------------------------------------------------------------
(* The field pick harness: pickStringField applied to a lookup and a list
   of candidate keys. *)

\* the number of candidate keys
MaxCandidates == 2

\* the candidate keys, as validateImportedRecipes and other callers spell them
PickCandidates == {K_name, K_prep_time, <<"P","r","e","p"," ","T","i","m","e">>, K_meal}

\* the normalized keys of the lookup
LookupKeys == {K_name, K_preptime, K_meal}

\* the values of the lookup
LookupValues ==
    {Str(<<"1","0"," ","m","i","n">>), Str(<<" ","x"," ">>), Str(<<" ">>), Str(<<>>), Num(Rat(5, 1))}

InitPick ==
    /\ pc = "start"
    /\ \E present \in SUBSET LookupKeys : fieldLookup \in [present -> LookupValues]
    /\ pickKeys \in UNION {[1..n -> PickCandidates] : n \in 0..MaxCandidates}
    /\ picked = Idle
    /\ fieldSource = Idle
    /\ IdleDedupe /\ IdleParse /\ IdleServings /\ IdleImport /\ IdleApp
    /\ IdlePlan /\ IdleMeal /\ IdleIngredients /\ IdleHandler

PickStringField ==
    /\ pc = "start"
    /\ picked' = pickStringField(fieldLookup, pickKeys)
    /\ pc' = "picked"
    /\ UNCHANGED <<fieldSource, fieldLookup, pickKeys, dedupeVars, parseVars, servingsVars,
                   importVars, appVars, planVars, mealVars, ingredientVars, handlerVars>>

NextPick == PickStringField

SpecPick == InitPick /\ [][NextPick]_vars

\* the i-th candidate key has a string in the lookup that is more than
\* white space
Qualifies(i) ==
    /\ NormalForm(pickKeys[i]) \in DOMAIN fieldLookup
    /\ fieldLookup[NormalForm(pickKeys[i])].t = "string"
    /\ \E k \in 1..Len(fieldLookup[NormalForm(pickKeys[i])].v) :
           fieldLookup[NormalForm(pickKeys[i])].v[k] # " "

\* C22: the result is the trimmed string of the first candidate key, in the
\* order given, whose value is a string that is not blank; null when no
\* candidate has one.
C22_FirstCandidateWins ==
    pc = "picked" =>
        /\ (\A i \in 1..Len(pickKeys) : ~Qualifies(i)) => picked = Null
        /\ \A i \in 1..Len(pickKeys) :
               (Qualifies(i) /\ \A j \in 1..(i - 1) : ~Qualifies(j))
                   => picked = Str(trim(fieldLookup[NormalForm(pickKeys[i])].v))

C22_Witness ==
    /\ pc = "picked"
    /\ pickKeys = <<K_name, <<"P","r","e","p"," ","T","i","m","e">>>>
    /\ DOMAIN fieldLookup = LookupKeys
    /\ fieldLookup[K_name] = Str(<<" ">>)
    /\ fieldLookup[K_preptime] = Str(<<" ","x"," ">>)
    /\ picked = Str(<<"x">>)

----------------------------------------------------------------------------
(* The ingredients harness: normalizeImportedIngredients applied to the
   value of the ingredients field of a raw record. *)

\* the number of elements of an ingredients array
MaxElements == 3

\* the number of pieces an ingredients text is written from
MaxPieces == 3

\* the elements of an ingredients array
ElementPool ==
    {Str(<<" ","2"," ","e","g","g","s">>), Str(<<"r","i","c","e"," ">>), Str(<<" ">>), Str(<<>>),
     Num(Rat(3, 1)), Null}

\* the pieces of an ingredients text
PiecePool ==
    {<<"a">>, <<"b"," ","c">>, <<" ">>, <<",">>, <<";">>, <<"\n">>, <<"\r">>,
     <<BULLET>>, <<"-">>, <<"*">>}

\* values that are neither an array nor a string
OtherIngredients ==
    {Null, Undefined, Num(Rat(5, 1)), Bool(TRUE), Obj(<<>>),
     Obj(<< <<<<"0">>, Str(<<"a">>)>> >>)}

InitIngredients ==
    /\ pc = "start"
    /\ \/ \E elements \in UNION {[1..n -> ElementPool] : n \in 0..MaxElements} :
             ingredientSource = Arr(elements)
       \/ \E pieces \in UNION {[1..n -> PiecePool] : n \in 0..MaxPieces} :
             ingredientSource = Str(writeWords(pieces))
       \/ ingredientSource \in OtherIngredients
    /\ ingredientList = Idle
    /\ IdleDedupe /\ IdleParse /\ IdleServings /\ IdleImport /\ IdleApp
    /\ IdlePlan /\ IdleMeal /\ IdleLookup /\ IdlePick /\ IdleHandler

NormalizeImportedIngredients ==
    /\ pc = "start"
    /\ ingredientList' = normalizeImportedIngredients(ingredientSource)
    /\ pc' = "normalized"
    /\ UNCHANGED <<ingredientSource, dedupeVars, parseVars, servingsVars, importVars, appVars,
                   planVars, mealVars, lookupVars, pickVars, handlerVars>>

NextIngredients == NormalizeImportedIngredients

SpecIngredients == InitIngredients /\ [][NextIngredients]_vars

Blank(text) == \A k \in 1..Len(text) : text[k] \in {" ", "\n", "\r"}

\* the i-th element of the array is a string that is not blank
Usable(elements, i) == elements[i].t = "string" /\ ~Blank(elements[i].v)

\* the place in the array of the k-th usable element
UsableAt(elements, k) ==
    CHOOSE i \in 1..Len(elements) :
        /\ Usable(elements, i)
        /\ Cardinality({j \in 1..(i - 1) : Usable(elements, j)}) = k - 1

\* the text from position i to position j has no ingredient: it is blank,
\* or a list marker followed by blanks
NoIngredient(text, i, j) ==
    \/ \A k \in i..j : text[k] \in {" ", "\n", "\r"}
    \/ i <= j /\ text[i] \in {"-", "*"} /\ \A k \in (i + 1)..j : text[k] \in {" ", "\n", "\r"}

Separators == {"\n", ",", ";", BULLET}

\* no segment between two separators has an ingredient
NothingUsable(text) ==
    \A i \in 1..(Len(text) + 1) : \A j \in (i - 1)..Len(text) :
        (/\ i = 1 \/ text[i - 1] \in Separators
         /\ j = Len(text) \/ text[j + 1] \in Separators
         /\ \A k \in i..j : text[k] \notin Separators)
            => NoIngredient(text, i, j)

\* C23: of an array the result is the strings of the array, trimmed, without
\* the blank ones, in their order; of a text that is not blank the result is
\* never empty, and is the trimmed text alone when no segment is usable; of
\* any other value the result is empty.
C23_IngredientList ==
    pc = "normalized" =>
        /\ ingredientSource.t = "array" =>
              LET holds(elements) ==
                      /\ Len(ingredientList) =
                             Cardinality({i \in 1..Len(elements) : Usable(elements, i)})
                      /\ \A k \in 1..Len(ingredientList) :
                             ingredientList[k] = trim(elements[UsableAt(elements, k)].v)
              IN  holds(ingredientSource.v)
        /\ (ingredientSource.t = "string" /\ ~Blank(ingredientSource.v)) =>
              /\ ingredientList # <<>>
              /\ NothingUsable(trim(ingredientSource.v))
                     => ingredientList = <<trim(ingredientSource.v)>>
        /\ ingredientSource.t \notin {"array", "string"} => ingredientList = <<>>

C23_Witness ==
    /\ pc = "normalized"
    /\ ingredientSource = Str(<<" ", "-", ";">>)
    /\ ingredientList = << <<"-", ";">> >>

----------------------------------------------------------------------------
(* The meal alias harness: coerceRecipePayload and validateImportedRecipes
   applied to a file of one record that has every required field and any
   of the aliases of the meal. *)

\* the aliases of the meal as the record spells them
AliasKeys == <<K_meal, <<"M","e","a","l"," ","T","y","p","e">>, K_meal_type, K_course, K_category>>

\* the values of an alias
AliasValues ==
    {Str(<<" ">>), Str(<<"b","r","u","n","c","h">>), Str(<<" ","L","u","n","c","h">>), Num(Rat(5, 1))}

\* the entries of the aliases a record has, in the order of AliasKeys or in
\* the opposite order
RECURSIVE aliasEntries(_, _)
aliasEntries(values, i) ==
    IF i > Len(AliasKeys) THEN <<>>
    ELSE IF i \in DOMAIN values
    THEN << <<AliasKeys[i], values[i]>> >> \o aliasEntries(values, i + 1)
    ELSE aliasEntries(values, i + 1)

reverse(entries) == [i \in 1..Len(entries) |-> entries[Len(entries) + 1 - i]]

InitAlias ==
    /\ pc = "start"
    /\ \E present \in SUBSET (1..Len(AliasKeys)) : \E values \in [present -> AliasValues] :
         \E opposite \in BOOLEAN :
            data = Arr(<< Obj(replaceEntry(BaseEntries(N_Soup), K_meal,
                                  IF opposite THEN reverse(aliasEntries(values, 1))
                                  ELSE aliasEntries(values, 1))) >>)
    /\ payload = Idle
    /\ validated = <<>>
    /\ IdleDedupe /\ IdleParse /\ IdleServings /\ IdleApp
    /\ IdlePlan /\ IdleMeal /\ IdleLookup /\ IdlePick /\ IdleIngredients /\ IdleHandler

ValidateRecord ==
    /\ pc = "start"
    /\ payload' = coerceRecipePayload(data)
    /\ validated' = validateImportedRecipes(payload')
    /\ pc' = "resolved"
    /\ UNCHANGED <<data, dedupeVars, parseVars, servingsVars, appVars,
                   planVars, mealVars, lookupVars, pickVars, ingredientVars, handlerVars>>

NextAlias == ValidateRecord

SpecAlias == InitAlias /\ [][NextAlias]_vars

\* the aliases in the order validateImportedRecipes states
AliasOrder == <<K_meal, K_meal_space_type, K_meal_type, K_course, K_category>>

\* the value the record has for the alias: that of its first key with the
\* normal form of the alias
RecordValue(entries, alias) ==
    LET hits == {i \in 1..Len(entries) : NormalForm(entries[i][1]) = NormalForm(alias)}
    IN  IF hits = {} THEN Undefined
        ELSE entries[CHOOSE i \in hits : \A j \in hits : i <= j][2]

NonBlankString(value) ==
    value.t = "string" /\ \E k \in 1..Len(value.v) : value.v[k] # " "

HasMeal(entries, a) == NonBlankString(RecordValue(entries, AliasOrder[a]))

\* the text of the a-th alias is one a meal rule matches
Classifiable(entries, a) ==
    FirstMatch(toLowerCase(trim(RecordValue(entries, AliasOrder[a]).v))) # Null

\* C28: the meal is resolved from the first alias, in the order meal, meal
\* type, meal_type, course, category, whose value is a string that is not
\* blank: the record is kept with the meal that text classifies to, and
\* dropped when it does not classify, whatever the later aliases hold.
C28_FirstAliasOnly ==
    pc = "resolved" =>
        LET holds(entries) ==
                /\ (\A a \in 1..Len(AliasOrder) : ~HasMeal(entries, a)) => validated = <<>>
                /\ \A a \in 1..Len(AliasOrder) :
                       (HasMeal(entries, a) /\ \A b \in 1..(a - 1) : ~HasMeal(entries, b)) =>
                           IF Classifiable(entries, a)
                           THEN /\ Len(validated) = 1
                                /\ Str(validated[1].meal) =
                                       FirstMatch(toLowerCase(trim(
                                           RecordValue(entries, AliasOrder[a]).v)))
                           ELSE validated = <<>>
        IN  holds(data.v[1].v)

C28_Witness ==
    /\ pc = "resolved"
    /\ validated = <<>>
    /\ \E a, b \in 1..Len(AliasOrder) :
          /\ a < b
          /\ HasMeal(data.v[1].v, a) /\ ~Classifiable(data.v[1].v, a)
          /\ \A c \in 1..(a - 1) : ~HasMeal(data.v[1].v, c)
          /\ HasMeal(data.v[1].v, b) /\ Classifiable(data.v[1].v, b)

----------------------------------------------------------------------------
(* The servings upgrade harness: the effect run, as React runs it after
   every render that changed recipes, on a stored collection whose servings
   are any numbers. *)

\* the number of recipes of the stored collection
MaxStored == 3

\* the servings of a stored recipe: 2 and 2.5 are kept, 1.234 and 0.005 are
\* rounded, 0.004 is rounded to 0, the others are not positive or not finite
StoredServings ==
    {Rat(2, 1), Rat(5, 2), Rat(1234, 1000), Rat(5, 1000), Rat(4, 1000),
     Rat(0, 1), Rat(-2, 1), NaN, Infinity}

InitUpgrade ==
    /\ pc = "stored"
    /\ \E n \in 0..MaxStored : \E stored \in [1..n -> StoredServings] :
          recipes = [i \in 1..n |->
                        Recipe(i, <<"S","o">>, <<"5">>, << <<"x">> >>, LUNCH, stored[i], <<"m">>)]
    /\ nextId = 0
    /\ exported = Idle
    /\ IdleDedupe /\ IdleParse /\ IdleServings /\ IdleImport
    /\ IdlePlan /\ IdleMeal /\ IdleLookup /\ IdlePick /\ IdleIngredients /\ IdleHandler

\* one run of the effect that has a change to make; pc counts the runs
UpgradeEffect ==
    /\ EffectPending
    /\ recipes' = upgradeServings(recipes)
    /\ pc' = IF pc = "stored" THEN "upgraded" ELSE "upgraded again"
    /\ UNCHANGED <<nextId, exported, importVars, dedupeVars, parseVars, servingsVars,
                   planVars, mealVars, lookupVars, pickVars, ingredientVars, handlerVars>>

NextUpgrade == UpgradeEffect

SpecUpgrade == InitUpgrade /\ [][NextUpgrade]_vars

\* React runs a pending effect
FairUpgrade == SpecUpgrade /\ WF_vars(UpgradeEffect)

\* every recipe has servings > 0 with at most 2 decimals
ServingsSettled ==
    \A i \in 1..Len(recipes) :
        /\ recipes[i].servings.d > 0
        /\ recipes[i].servings.n > 0
        /\ (100 * recipes[i].servings.n) % recipes[i].servings.d = 0

\* C25: the effect comes to make no further change, and from then on every
\* recipe has servings > 0 rounded to 2 decimals.
C25_EffectTerminates == <>[](~EffectPending /\ ServingsSettled)

C25_Witness ==
    /\ pc = "upgraded again"
    /\ ~EffectPending
    /\ ServingsSettled
    /\ Len(recipes) = MaxStored

----------------------------------------------------------------------------
(* The planner's handlers.  A MealPlan is a function from its dates to
   DayPlans; a slot of a DayPlan is Null or Str(recipe id). *)

createEmptyDayPlan == [meal \in MealTypeSet |-> Null]

\* ensureDayPlan(plan, date), as the plan it leaves
ensureDayPlan(plan, date) ==
    IF date \in DOMAIN plan THEN plan ELSE plan @@ (date :> createEmptyDayPlan)

isDayEmpty(day) ==
    \A i \in 1..Len(MEAL_TYPES) : ~slotAssigned(day[MEAL_TYPES[i]])

\* updatedDay[meal] === recipeId
slotHolds(day, meal, recipeId) == day[meal].t = "string" /\ day[meal].v = recipeId

\* the setMealPlan updater of handleAssignMeal
handleAssignMeal(previous, date, meal, recipeId) ==
    LET next == ensureDayPlan(previous, date)
        day == [next[date] EXCEPT ![meal] = recipeId]
    IN  IF isDayEmpty(day)
        THEN [d \in (DOMAIN next) \ {date} |-> next[d]]
        ELSE [next EXCEPT ![date] = day]

\* removeRecipeFromPlan's updatedDay after the MEAL_TYPES loop
updatedDay(day, recipeId) ==
    [meal \in DOMAIN day |-> IF slotHolds(day, meal, recipeId) THEN Null ELSE day[meal]]

\* removeRecipeFromPlan's dayChanged after the MEAL_TYPES loop
dayChanged(day, recipeId) ==
    \E i \in 1..Len(MEAL_TYPES) : slotHolds(day, MEAL_TYPES[i], recipeId)

\* the removal that keeps a day it has emptied
removeRecipeFromPlanKeepEmptyDays(plan, recipeId) ==
    [date \in DOMAIN plan |-> updatedDay(plan[date], recipeId)]

removeRecipeFromPlan(plan, recipeId) ==
    LET kept == {date \in DOMAIN plan :
                    dayChanged(plan[date], recipeId)
                        => ~isDayEmpty(updatedDay(plan[date], recipeId))}
        nextPlan == [date \in kept |->
                        IF dayChanged(plan[date], recipeId)
                        THEN updatedDay(plan[date], recipeId)
                        ELSE plan[date]]
        changed == \E date \in DOMAIN plan : dayChanged(plan[date], recipeId)
    IN  IF changed THEN nextPlan ELSE plan

\* handleDeleteRecipe's setRecipes updater
filterOutRecipe(previous, id) == SelectSeq(previous, LAMBDA recipe : recipe.id # id)

----------------------------------------------------------------------------
(* The planner harness: meals are assigned and cleared, recipes are deleted
   and batches of recipes are imported, in any order. *)

\* the number of records handleImport gives an identifier to
MaxStamped == 2

\* the dates and meals of the planner grid the harness clicks
PlannerDates == {D_FEB29, D_MAR01}
PlannerMeals == {BREAKFAST, DINNER}

\* the names of the validated records of an imported file
BatchNames == {<<"S","O">>, <<"T","a">>}

\* the ids of the recipes of a collection
idsOf(collection) == {collection[i].id : i \in 1..Len(collection)}

\* the state handleDeleteRecipe or handleImport ran in, and its argument
Called(handler, id) ==
    [handler |-> handler, id |-> id, recipes |-> recipes, mealPlan |-> mealPlan]

InitPlanner ==
    /\ pc = "ready"
    /\ recipes = <<VariantRecipe(ExistingIds[1], <<"S","o">>, 0),
                   VariantRecipe(ExistingIds[2], <<"P","i">>, 1)>>
    /\ nextId = 0
    /\ mealPlan = [date \in {} |-> createEmptyDayPlan]
    /\ call = Idle
    /\ exported = Idle /\ rangeStart = Idle /\ rangeEnd = Idle /\ outputs = Idle
    /\ IdleDedupe /\ IdleParse /\ IdleServings /\ IdleImport
    /\ IdleMeal /\ IdleLookup /\ IdlePick /\ IdleIngredients

\* onAssign(date, meal, recipeId) from the recipe picker
AssignMeal(date, meal, recipeId) ==
    /\ recipeId \in idsOf(recipes)
    /\ mealPlan' = handleAssignMeal(mealPlan, date, meal, Str(recipeId))
    /\ call' = Idle
    /\ pc' = "assigned"
    /\ UNCHANGED <<recipes, nextId, exported, rangeStart, rangeEnd, outputs,
                   dedupeVars, parseVars, servingsVars, importVars, mealVars,
                   lookupVars, pickVars, ingredientVars>>

\* onAssign(date, meal, null) from a slot's clear button
ClearMeal(date, meal) ==
    /\ date \in DOMAIN mealPlan
    /\ slotAssigned(mealPlan[date][meal])
    /\ mealPlan' = handleAssignMeal(mealPlan, date, meal, Null)
    /\ call' = Idle
    /\ pc' = "cleared"
    /\ UNCHANGED <<recipes, nextId, exported, rangeStart, rangeEnd, outputs,
                   dedupeVars, parseVars, servingsVars, importVars, mealVars,
                   lookupVars, pickVars, ingredientVars>>

\* handleDeleteRecipe(id) from a recipe's delete button
DeleteRecipe(id) ==
    /\ id \in idsOf(recipes)
    /\ recipes' = filterOutRecipe(recipes, id)
    /\ mealPlan' = removeRecipeFromPlan(mealPlan, id)
    /\ call' = Called("delete", id)
    /\ pc' = "deleted"
    /\ UNCHANGED <<nextId, exported, rangeStart, rangeEnd, outputs,
                   dedupeVars, parseVars, servingsVars, importVars, mealVars,
                   lookupVars, pickVars, ingredientVars>>

\* handleImport's setRecipes updater for a file with the given validated
\* names: generateId gives every record an identifier no recipe has
ImportBatch(names) ==
    /\ nextId + Len(names) <= MaxStamped
    /\ recipes' = dedupeRecipes(recipes,
                      [i \in 1..Len(names) |->
                          VariantRecipe(IncomingIds[nextId + i], names[i], 2)])
    /\ nextId' = nextId + Len(names)
    /\ call' = Called("import", IncomingIds[nextId + 1])
    /\ pc' = "imported"
    /\ UNCHANGED <<mealPlan, exported, rangeStart, rangeEnd, outputs,
                   dedupeVars, parseVars, servingsVars, importVars, mealVars,
                   lookupVars, pickVars, ingredientVars>>

NextPlanner ==
    \/ \E date \in PlannerDates : \E meal \in PlannerMeals :
         \E recipeId \in idsOf(recipes) : AssignMeal(date, meal, recipeId)
    \/ \E date \in PlannerDates : \E meal \in PlannerMeals : ClearMeal(date, meal)
    \/ \E id \in idsOf(recipes) : DeleteRecipe(id)
    \/ \E n \in 1..MaxStamped : \E names \in [1..n -> BatchNames] : ImportBatch(names)

SpecPlanner == InitPlanner /\ [][NextPlanner]_vars

\* the slot of a plan, Null where the plan has no such day
SlotOf(plan, date, meal) == IF date \in DOMAIN plan THEN plan[date][meal] ELSE Null

\* the slot holds the id of a recipe of the collection
ResolvesIn(slot, collection) == slot.t = "string" /\ slot.v \in idsOf(collection)

\* C24: after an import every slot that referenced a recipe of the
\* collection before the import references a recipe of the collection.
C24_SlotsStillResolve ==
    pc = "imported" =>
        \A date \in DOMAIN call.mealPlan : \A meal \in MealTypeSet :
            ResolvesIn(call.mealPlan[date][meal], call.recipes)
                => ResolvesIn(SlotOf(mealPlan, date, meal), recipes)

\* the records of a collection without those of the given id, in order
RECURSIVE Without(_, _)
Without(collection, id) ==
    IF collection = <<>> THEN <<>>
    ELSE IF Head(collection).id = id THEN Without(Tail(collection), id)
    ELSE <<Head(collection)>> \o Without(Tail(collection), id)

\* the day has a slot that holds a recipe id other than the given one
HoldsAnother(day, id) ==
    \E meal \in MealTypeSet : day[meal].t = "string" /\ day[meal].v # id

\* C26: after handleDeleteRecipe(id) the collection is the one before
\* without the recipe of that id, no slot holds id, the days of the plan are
\* the days that held another recipe, and every slot of those days that did
\* not hold id is as before.
C26_DeleteFrame ==
    pc = "deleted" =>
        /\ recipes = Without(call.recipes, call.id)
        /\ call.id \notin idsOf(recipes)
        /\ DOMAIN mealPlan =
              {date \in DOMAIN call.mealPlan : HoldsAnother(call.mealPlan[date], call.id)}
        /\ \A date \in DOMAIN mealPlan : \A meal \in MealTypeSet :
              /\ ~(mealPlan[date][meal].t = "string" /\ mealPlan[date][meal].v = call.id)
              /\ mealPlan[date][meal] =
                    IF call.mealPlan[date][meal].t = "string"
                       /\ call.mealPlan[date][meal].v = call.id
                    THEN Null
                    ELSE call.mealPlan[date][meal]

\* a delete that removed a day, cleared one slot of a day it kept and left
\* the other recipe in the collection
C26_Witness ==
    /\ pc = "deleted"
    /\ Len(recipes) < Len(call.recipes)
    /\ Len(recipes) > 0
    /\ \E date \in DOMAIN call.mealPlan : date \notin DOMAIN mealPlan
    /\ \E date \in DOMAIN mealPlan :
          /\ slotAssigned(mealPlan[date][DINNER])
          /\ slotAssigned(call.mealPlan[date][BREAKFAST])
          /\ ~slotAssigned(mealPlan[date][BREAKFAST])

====
